---- MODULE Spec2Model ----
(***************************************************************************)
(* Playback controller and audio sync of the session replay player         *)
(* (src/components/Player.tsx) with the timeline functions of lib/callSync *)
(* (src/unnamed/part_001).                                                 *)
(*                                                                         *)
(* Virtual time, event timestamps and call offsets are in milliseconds.    *)
(* Audio positions (seconds, fractional, in the code) are in microseconds, *)
(* so that (t - offset) / rate / 1000 is exact for the rates 1 and 2.      *)
(***************************************************************************)
EXTENDS Integers, Sequences, FiniteSets, TLC

\* An optional value (null | v) is <<>> or <<v>>.
None == << >>
Some(v) == << v >>

\* ------------------------------------------------------------ bounds
MaxLoads == 1          \* loads of a recording (changes of the events prop)
MaxSeeks == 2          \* seek() calls
MaxReloads == 2        \* loads when one recording replaces another
MaxReloadSeeks == 1    \* seek() calls around the replacement

\* ------------------------------------------------- program constants
SlackMs == 1000            \* Player.tsx:273  actualTime <= duration + 1000
GuardMarginMs == 100       \* Player.tsx:584  callOffset - 100
HysteresisUs == 500000     \* Player.tsx:565  Math.abs(timeDiff) > 0.5
BackJumpUs == 2000000      \* Player.tsx:565  Math.abs(timeDiff) > 2
DistinctUs == 100000       \* Player.tsx:565  positionDiff > 0.1
AtEdgeUs == 100000         \* Player.tsx:586, 593  0.1
LastInit == -1000000       \* Player.tsx:27   useRef<number>(-1)

\* ------------------------------------------------------------ inputs
\* Event types: "n2" is the number 2, "s2" the string '2' (both FullSnapshot),
\* "n3" Incremental, "n4" Meta.
Ev(ty, ts) == [type |-> ty, timestamp |-> ts]

\* Recording 1 is the scenario of the spec (duration 500); recording 2 has a
\* Meta event alone before its FullSnapshot and lasts 2000 ms.  Recordings 3
\* and 4 have no FullSnapshot.  Recording 5 lasts 2000 ms and has an event
\* 800 ms after its FullSnapshot.
Recordings ==
  << << Ev("n4", 1000), Ev("n2", 1000), Ev("n3", 1500) >>,
     << Ev("n4", 1000), Ev("n2", 1100), Ev("n3", 3000) >>,
     << Ev("n4", 1000), Ev("n3", 1500) >>,
     << Ev("n3", 1000), Ev("n3", 1200), Ev("n4", 3000) >>,
     << Ev("n4", 1000), Ev("n2", 1000), Ev("n3", 1800), Ev("n3", 3000) >> >>

\* The recordings without a FullSnapshot, the recording of four events, and
\* the three-event recordings with a FullSnapshot.
UnplayableIds == {i \in 1..Len(Recordings) :
                    \A k \in 1..Len(Recordings[i]) : Recordings[i][k].type \notin {"n2", "s2"}}
LongIds == {i \in 1..Len(Recordings) : Len(Recordings[i]) > 3}
RecIds == (1..Len(Recordings)) \ (UnplayableIds \cup LongIds)

SeekTargets == {0, 400, 1500}
Speeds == {1, 2}

\* The call configuration the API route returns: call window [300, 1300] ms.
TheCallConfig == [callOffset |-> 300, callDuration |-> 1000]
\* Length of the audio file, microseconds.
AudioDurationUs == 800000
\* One step of the primitive's clock (ms) and of the audio (us of media time at rate 1).
PrimStepMs == 1000
AudioStepUs == 600000

Abs(x) == IF x < 0 THEN -x ELSE x
Min(a, b) == IF a < b THEN a ELSE b

\* --------------------------------------------------- lib/callSync
\* A position that is not clamped before the call start.
calculateAudioPosition_NoClamp(sessionCurrentTime, callOffset, speed) ==
  ((sessionCurrentTime - callOffset) * 1000) \div speed

\* An upper boundary that is exclusive.
isWithinCallPeriod_Exclusive(sessionCurrentTime, callOffset, callDuration) ==
  sessionCurrentTime >= callOffset /\ sessionCurrentTime < callOffset + callDuration

isWithinCallPeriod(sessionCurrentTime, callOffset, callDuration) ==
  sessionCurrentTime >= callOffset /\ sessionCurrentTime <= callOffset + callDuration

calculateAudioPosition(sessionCurrentTime, callOffset, speed) ==
  IF sessionCurrentTime < callOffset THEN 0
  ELSE ((sessionCurrentTime - callOffset) * 1000) \div speed

\* ------------------------------------------------ event list helpers
IsFullSnapshot(e) == e.type = "n2" \/ e.type = "s2"

\* events.filter(e => e && e.timestamp && e.timestamp <= targetTimestamp)
EventsUpTo(evs, targetTimestamp) ==
  SelectSeq(evs, LAMBDA e : e.timestamp # 0 /\ e.timestamp <= targetTimestamp)

\* A check that passes every list that has an event.
HasFullSnapshot_NonEmpty(evs) == Len(evs) > 0

HasFullSnapshot(evs) == \E i \in 1..Len(evs) : IsFullSnapshot(evs[i])

\* evs.find(e => e.type === 2 || e.type === '2')
FindFullSnapshot(evs) ==
  evs[CHOOSE i \in 1..Len(evs) :
        IsFullSnapshot(evs[i]) /\ \A j \in 1..(i - 1) : ~IsFullSnapshot(evs[j])]

\* fullSnapshot ? [fullSnapshot, ...otherEvents] : eventsUpToTarget
SortedEvents(evs) ==
  IF HasFullSnapshot(evs)
  THEN << FindFullSnapshot(evs) >> \o SelectSeq(evs, LAMBDA e : ~IsFullSnapshot(e))
  ELSE evs

\* currentEvents.findIndex(e => e === x), 1-based; 0 when absent
FindIndex(evs, x) ==
  IF \E i \in 1..Len(evs) : evs[i] = x
  THEN CHOOSE i \in 1..Len(evs) : evs[i] = x /\ \A j \in 1..(i - 1) : evs[j] # x
  ELSE 0

\* The extension step of recreateReplayerAtPosition.
ExtendEvents(eventsToApply, currentEvents) ==
  IF Len(eventsToApply) < 2 /\ HasFullSnapshot(eventsToApply) /\ Len(currentEvents) > 1
  THEN LET fullSnapshot == FindFullSnapshot(eventsToApply)
           idx == FindIndex(currentEvents, fullSnapshot)
       IN IF idx >= 1 /\ idx < Len(currentEvents)
          THEN << fullSnapshot, currentEvents[idx + 1] >>
          ELSE eventsToApply
  ELSE eventsToApply

\* lastEvent.timestamp - firstEvent.timestamp
SpanOf(evs) == evs[Len(evs)].timestamp - evs[1].timestamp

\* ------------------------------------------------------------- state
VARIABLES
  events,               \* the events prop: a recording id, 0 before the first load
  eventsRef,            \* module-level eventsRef.current: a recording id, 0 for null
  loads,                \* one record per run of the load effect (closure of that render)
  replayerRef,          \* replayerRef.current: None or Some(primitive instance)
  orphans,              \* superseded primitive instances that are still playing
  nextId,               \* identity of the next primitive instance constructed
  isSeekingRef,         \* isSeekingRef.current
  seekTimers,           \* pending 300 ms timers of recreateReplayerAtPosition
  seekBaseTimeRef,      \* seekBaseTimeRef.current: None or Some(ms)
  isPlaying, currentTime, duration, playbackSpeed,
  callConfig,           \* None or Some([callOffset, callDuration])
  configDone,           \* loadCallConfig has returned
  firstEventTimestamp,  \* None or Some(ms)
  audioEnabled,
  audio,                \* the audio element: None while callConfig is null
  lastAudioPositionRef, \* microseconds
  loadsLeft,            \* loads the page may still make
  seeksLeft,            \* seeks the user may still make
  lastSeek,             \* history: the last seek, until the next play or load
  syncLog,              \* history: the evaluations of the sync effect by ReEvaluate
  asm,                  \* one run of fetchSessionData (lib/api): its inputs, heap, result
  call,                 \* one call of a library function: its arguments and result
  lastOp                \* log of the last operation (history variable)

vars == << events, eventsRef, loads, replayerRef, orphans, nextId, isSeekingRef,
           seekTimers, seekBaseTimeRef, isPlaying, currentTime, duration,
           playbackSpeed, callConfig, configDone, firstEventTimestamp,
           audioEnabled, audio, lastAudioPositionRef, loadsLeft, seeksLeft,
           lastSeek, syncLog, asm, call, lastOp >>

\* No run of fetchSessionData is in progress.
AsmIdle == [pc |-> "idle"]

\* No library function is being called.
CallIdle == [fn |-> "idle"]

\* The log of an operation: what it was called with, how it ended, which
\* lifecycle notifications reached a listener, whether it called setIsPlaying
\* itself, the audio position it wrote itself (None: no write), and whether the
\* sync effect ran when it returned.
Op(name) ==
  [name |-> name, t |-> 0, outcome |-> "done", notified |-> {}, direct |-> FALSE,
   audioSet |-> None, synced |-> FALSE]

Init ==
  /\ events = 0
  /\ eventsRef = 0
  /\ loads = << >>
  /\ replayerRef = None
  /\ orphans = {}
  /\ nextId = 1
  /\ isSeekingRef = FALSE
  /\ seekTimers = 0
  /\ seekBaseTimeRef = None
  /\ isPlaying = FALSE
  /\ currentTime = 0
  /\ duration = 0
  /\ playbackSpeed = 1
  /\ callConfig = None
  /\ configDone = FALSE
  /\ firstEventTimestamp = None
  /\ audioEnabled = TRUE
  /\ audio = None
  /\ lastAudioPositionRef = LastInit
  /\ loadsLeft = MaxLoads
  /\ seeksLeft = MaxSeeks
  /\ lastSeek = None
  /\ syncLog = None
  /\ asm = AsmIdle
  /\ call = CallIdle
  /\ lastOp = Op("init")

\* ------------------------------------------------- the audio element
\* A fresh <audio> element over a file that is fileUs long.
NewAudio(fileUs) ==
  [paused |-> TRUE, pos |-> 0, rate |-> 1, readyState |-> 0, fileUs |-> fileUs]

\* audio.duration || 0 : NaN until the metadata is loaded
AudioDurationOr0(a) == IF a.readyState >= 1 THEN a.fileUs ELSE 0

\* audio.currentTime = p : the element clamps to its duration once it is known
AudioSetTime(a, p) ==
  [a EXCEPT !.pos = IF a.readyState >= 1 THEN Min(p, a.fileUs) ELSE p]

AudioPause(a) == [a EXCEPT !.paused = TRUE]

\* audio.play(): playback that has ended restarts from the beginning
AudioPlay(a) ==
  [a EXCEPT !.paused = FALSE,
            !.pos = IF a.readyState >= 1 /\ a.pos >= a.fileUs THEN 0 ELSE a.pos]

\* ----------------------------------------------------- sync effect
\* The guard without its hysteresis part: any forward move is written.
ShouldWrite_NoHysteresis(audioPosition, audioTime, last) ==
  LET timeDiff == audioPosition - audioTime
  IN /\ (timeDiff > 0 \/ Abs(timeDiff) > BackJumpUs)
     /\ Abs(audioPosition - last) > DistinctUs

\* The guard without the comparison against the last position set.
ShouldWrite_NoDistinct(audioPosition, audioTime, last) ==
  LET timeDiff == audioPosition - audioTime
  IN /\ Abs(timeDiff) > HysteresisUs
     /\ (timeDiff > 0 \/ Abs(timeDiff) > BackJumpUs)

\* The three-part guard of the in-window branch.
ShouldWrite(audioPosition, audioTime, last) ==
  LET timeDiff == audioPosition - audioTime
      positionDiff == Abs(audioPosition - last)
  IN /\ Abs(timeDiff) > HysteresisUs
     /\ (timeDiff > 0 \/ Abs(timeDiff) > BackJumpUs)
     /\ positionDiff > DistinctUs

\* A disabled branch that also rewinds the audio.
SyncDisabled_Rewind(a, last) ==
  [audio |-> IF a # None THEN Some(AudioSetTime(AudioPause(a[1]), 0)) ELSE a,
   last |-> 0, branch |-> "disabled", wrote |-> a # None, played |-> FALSE,
   target |-> 0, set |-> IF a # None THEN Some(0) ELSE None]

\* The first branch of the audio sync effect: track disabled or unconfigured.
SyncDisabled(a, last) ==
  [audio |-> IF a # None /\ ~a[1].paused THEN Some(AudioPause(a[1])) ELSE a,
   last |-> last, branch |-> "disabled", wrote |-> FALSE, played |-> FALSE,
   target |-> 0, set |-> None]

\* The body of the audio sync effect. a is None or Some(element). The result
\* holds the element and lastAudioPositionRef afterwards and what was done:
\* the branch taken, whether audio.currentTime was assigned (wrote) and with
\* which value (set), whether audio.play() was called.
SyncEffect(ct, cfg, spd, ip, en, a, last) ==
  IF cfg = None \/ a = None \/ ~en
  THEN SyncDisabled(a, last)
  ELSE
    LET el == a[1]
        c == cfg[1]
    IN IF isWithinCallPeriod(ct, c.callOffset, c.callDuration)
       THEN LET audioPosition == calculateAudioPosition(ct, c.callOffset, spd)
                write == ShouldWrite(audioPosition, el.pos, last)
                a1 == IF write THEN AudioSetTime(el, audioPosition) ELSE el
                play == ip /\ a1.paused /\ a1.readyState >= 2
            IN [audio |-> Some(IF play THEN AudioPlay(a1) ELSE a1),
                last |-> IF write THEN audioPosition ELSE last,
                branch |-> "inside", wrote |-> write, played |-> play,
                target |-> audioPosition,
                set |-> IF write THEN Some(audioPosition) ELSE None]
       ELSE LET a0 == IF ~el.paused THEN AudioPause(el) ELSE el
                endTime == AudioDurationOr0(el)
            IN IF ct < c.callOffset - GuardMarginMs
               THEN LET write == a0.pos > AtEdgeUs /\ last # 0
                    IN [audio |-> Some(IF write THEN AudioSetTime(a0, 0) ELSE a0),
                        last |-> IF write THEN 0 ELSE last,
                        branch |-> "before", wrote |-> write, played |-> FALSE,
                        target |-> 0, set |-> IF write THEN Some(0) ELSE None]
               ELSE IF ct > c.callOffset + c.callDuration
               THEN LET write == a0.pos < endTime - AtEdgeUs /\ last # endTime
                    IN [audio |-> Some(IF write THEN AudioSetTime(a0, endTime) ELSE a0),
                        last |-> IF write THEN endTime ELSE last,
                        branch |-> "after", wrote |-> write, played |-> FALSE,
                        target |-> endTime,
                        set |-> IF write THEN Some(endTime) ELSE None]
               ELSE [audio |-> Some(a0), last |-> last, branch |-> "margin",
                     wrote |-> FALSE, played |-> FALSE, target |-> 0, set |-> None]

\* The end of a handler: React commits the state it set and, when one of the
\* effect's dependencies [currentTime, callConfig, playbackSpeed, isPlaying,
\* audioEnabled] changed, runs the sync effect on the committed state. a and
\* last are the audio element and lastAudioPositionRef as the handler left them.
Render(op, ct, cfg, spd, ip, en, a, last) ==
  LET changed == << ct, cfg, spd, ip, en >> #
                   << currentTime, callConfig, playbackSpeed, isPlaying, audioEnabled >>
      r == SyncEffect(ct, cfg, spd, ip, en, a, last)
  IN /\ currentTime' = ct
     /\ callConfig' = cfg
     /\ playbackSpeed' = spd
     /\ isPlaying' = ip
     /\ audioEnabled' = en
     /\ audio' = IF changed THEN r.audio ELSE a
     /\ lastAudioPositionRef' = IF changed THEN r.last ELSE last
     /\ lastOp' = [op EXCEPT !.synced = changed]

\* ------------------------------------------- the replay primitive
\* A primitive instance as the controller sees it: its input events, whether
\* it is playing, its own clock (0 at the first event it was given), its
\* speed, and whether the controller's start/pause/finish listeners are
\* attached to it. gen is the load that constructed it, 0 for a seek.
NewReplayer(id, gen, evs, spd, listeners) ==
  [id |-> id, gen |-> gen, evs |-> evs, playing |-> FALSE, time |-> 0,
   speed |-> spd, listeners |-> listeners]

MaxTs(evs) == CHOOSE m \in {evs[i].timestamp : i \in 1..Len(evs)} :
                \A i \in 1..Len(evs) : evs[i].timestamp <= m
MinTs(evs) == CHOOSE m \in {evs[i].timestamp : i \in 1..Len(evs)} :
                \A i \in 1..Len(evs) : evs[i].timestamp >= m
\* The time the primitive's input spans: its clock stops there.
PrimTotal(evs) == MaxTs(evs) - MinTs(evs)

\* replayer.play(): replays its events from the beginning
PrimPlay(p) == [p EXCEPT !.playing = TRUE, !.time = 0]
\* replayer.pause()
PrimPause(p) == [p EXCEPT !.playing = FALSE]

\* The previous instance, once the reference is overwritten: it stays behind
\* as a running instance when nobody paused it.
Supersede(old) ==
  IF old # None /\ old[1].playing
  THEN orphans \cup {[id |-> old[1].id, gen |-> old[1].gen, listeners |-> old[1].listeners]}
  ELSE orphans

\* ------------------------------------------------------ load effect
\* The events prop changes: cleanup of the previous run of the effect, then
\* the effect body up to the 500 ms timer.
LoadStart(rec) ==
  /\ loadsLeft > 0
  /\ loadsLeft' = loadsLeft - 1
  /\ LET n == Len(loads)
         hasPrev == n > 0
         ranCleanup == hasPrev /\ loads[n].stage = "ready"
         pauseLive == ranCleanup /\ replayerRef # None
         heard == pauseLive /\ replayerRef[1].listeners
         loads1 == IF hasPrev
                   THEN [loads EXCEPT ![n] =
                          [@ EXCEPT !.stage = IF @ = "timeout" THEN "dead" ELSE @,
                                    !.interval = FALSE,
                                    !.cleaned = TRUE]]
                   ELSE loads
     IN /\ loads' = Append(loads1, [rec |-> rec, stage |-> "timeout", interval |-> FALSE,
                                    cleaned |-> FALSE, closDuration |-> duration,
                                    closSpeed |-> playbackSpeed])
        /\ replayerRef' = IF pauseLive THEN Some(PrimPause(replayerRef[1])) ELSE replayerRef
        /\ events' = rec
        /\ eventsRef' = rec
        /\ Render([Op("load") EXCEPT !.t = rec,
                                     !.notified = IF heard THEN {"pause"} ELSE {}],
                  currentTime, callConfig, playbackSpeed,
                  IF heard THEN FALSE ELSE isPlaying, audioEnabled,
                  audio, lastAudioPositionRef)
  /\ UNCHANGED << orphans, nextId, isSeekingRef, seekTimers, seekBaseTimeRef, duration,
                  configDone, firstEventTimestamp, seeksLeft, lastSeek, syncLog, asm, call >>

\* The 500 ms timer fires: initializePlayer up to the FullSnapshot check.
InitTimeoutFire(g) ==
  /\ g \in 1..Len(loads)
  /\ loads[g].stage = "timeout"
  /\ loads' = [loads EXCEPT ![g].stage =
                 IF HasFullSnapshot(Recordings[loads[g].rec]) THEN "raf" ELSE "dead"]
  /\ lastOp' = [Op("initializePlayer") EXCEPT !.t = g]
  /\ UNCHANGED << events, eventsRef, replayerRef, orphans, nextId, isSeekingRef,
                  seekTimers, seekBaseTimeRef, isPlaying, currentTime, duration,
                  playbackSpeed, callConfig, configDone, firstEventTimestamp,
                  audioEnabled, audio, lastAudioPositionRef, loadsLeft, seeksLeft,
                  lastSeek, syncLog, asm, call >>

\* Timers of equal delay fire in the order they were set: a stage of load g
\* runs only when no earlier load is still waiting in one of these stages.
EarlierDone(g, stages) == \A h \in 1..(g - 1) : loads[h].stage \notin stages

\* A construction that leaves the seek base of the previous recording.
ConstructSeekBase_Keep == seekBaseTimeRef

\* "Clear base time on initial creation"
ConstructSeekBase == None

\* requestAnimationFrame + 100 ms: the primitive is constructed over the
\* events and with the speed of the render that ran the effect.
ConstructFire(g) ==
  /\ g \in 1..Len(loads)
  /\ loads[g].stage = "raf"
  /\ EarlierDone(g, {"raf"})
  /\ loads' = [loads EXCEPT ![g].stage = "setup"]
  /\ replayerRef' = Some(NewReplayer(nextId, g, Recordings[loads[g].rec],
                                     loads[g].closSpeed, FALSE))
  /\ orphans' = Supersede(replayerRef)
  /\ nextId' = nextId + 1
  /\ seekBaseTimeRef' = ConstructSeekBase
  /\ Render([Op("construct") EXCEPT !.t = g],
            0, callConfig, playbackSpeed, isPlaying, audioEnabled,
            audio, lastAudioPositionRef)
  /\ lastSeek' = None
  /\ UNCHANGED << events, eventsRef, isSeekingRef, seekTimers, duration, configDone,
                  firstEventTimestamp, loadsLeft, seeksLeft, syncLog, asm, call >>

\* 200 ms later: setupReplayer attaches the listeners to the instance it was
\* given, derives duration and firstEventTimestamp and starts the polling.
SetupFire(g) ==
  /\ g \in 1..Len(loads)
  /\ loads[g].stage = "setup"
  /\ EarlierDone(g, {"raf", "setup"})
  /\ LET evs == Recordings[loads[g].rec]
         stamped == evs[1].timestamp # 0 /\ evs[Len(evs)].timestamp # 0
     IN /\ duration' = IF stamped THEN SpanOf(evs) ELSE duration
        /\ firstEventTimestamp' = IF stamped THEN Some(evs[1].timestamp)
                                  ELSE firstEventTimestamp
  /\ loads' = [loads EXCEPT ![g].stage = "ready", ![g].interval = TRUE]
  /\ replayerRef' = IF replayerRef # None /\ replayerRef[1].gen = g
                    THEN Some([replayerRef[1] EXCEPT !.listeners = TRUE])
                    ELSE replayerRef
  /\ orphans' = {IF o.gen = g THEN [o EXCEPT !.listeners = TRUE] ELSE o : o \in orphans}
  /\ lastOp' = [Op("setupReplayer") EXCEPT !.t = g]
  /\ UNCHANGED << events, eventsRef, nextId, isSeekingRef, seekTimers, seekBaseTimeRef,
                  isPlaying, currentTime, playbackSpeed, callConfig, configDone,
                  audioEnabled, audio, lastAudioPositionRef, loadsLeft, seeksLeft,
                  lastSeek, syncLog, asm, call >>

\* ------------------------------------------------------ time polling
\* Polling that passes the primitive's own clock on, whatever the seek base is.
PolledTime_NoRebase(read, closDuration) ==
  IF read # None /\ read[1] >= 0 THEN read[1] ELSE currentTime

\* The value the polling callback passes to setCurrentTime, given what
\* getCurrentTime() returned (None: undefined or NaN) and the duration its
\* closure holds.
PolledTime(read, closDuration) ==
  IF seekBaseTimeRef # None
  THEN LET replayerRelativeTime == IF read # None /\ read[1] >= 0 THEN read[1] ELSE 0
           actualTime == seekBaseTimeRef[1] + replayerRelativeTime
       IN IF actualTime >= 0 /\ actualTime <= closDuration + SlackMs
          THEN actualTime
          ELSE seekBaseTimeRef[1]
  ELSE IF read # None /\ read[1] >= 0
       THEN read[1]
       ELSE currentTime

\* A polling callback that does not look at the Seeking flag.
TickSkips_NoFlag == replayerRef = None

\* The polling callback returns without setCurrentTime: the Seeking flag is
\* set, or there is no primitive.
TickSkips == isSeekingRef \/ replayerRef = None

\* One tick of the timeInterval started by the setupReplayer of load g.
\* valid: getCurrentTime() returned a number (not undefined or NaN).
Tick(g, valid) ==
  /\ g \in 1..Len(loads)
  /\ loads[g].interval
  /\ LET read == IF valid /\ replayerRef # None THEN Some(replayerRef[1].time) ELSE None
         skip == TickSkips
     IN Render([Op("tick") EXCEPT !.t = g,
                                  !.outcome = IF skip THEN "suppressed"
                                              ELSE IF valid THEN "done" ELSE "invalid"],
               IF skip THEN currentTime ELSE PolledTime(read, loads[g].closDuration),
               callConfig, playbackSpeed, isPlaying, audioEnabled,
               audio, lastAudioPositionRef)
  /\ UNCHANGED << events, eventsRef, loads, replayerRef, orphans, nextId, isSeekingRef,
                  seekTimers, seekBaseTimeRef, duration, configDone,
                  firstEventTimestamp, loadsLeft, seeksLeft,
                  lastSeek, syncLog, asm, call >>

\* ------------------------------------------------------------- seek
CurrentEvents == Recordings[IF eventsRef # 0 THEN eventsRef ELSE events]

\* The event list handleSeek and recreateReplayerAtPosition arrive at.
SeekEvents(timeInMs) ==
  LET targetTimestamp == firstEventTimestamp[1] + timeInMs
      eventsUpToTarget == EventsUpTo(CurrentEvents, targetTimestamp)
  IN ExtendEvents(SortedEvents(eventsUpToTarget), CurrentEvents)

\* "Sync audio position after seeking": the last block of handleSeek.
SeekAudio(a, last, timeInMs) ==
  IF a # None /\ callConfig # None /\ audioEnabled
  THEN LET c == callConfig[1]
       IN IF isWithinCallPeriod(timeInMs, c.callOffset, c.callDuration)
          THEN LET audioPosition ==
                     calculateAudioPosition(timeInMs, c.callOffset, playbackSpeed)
               IN [audio |-> Some(AudioSetTime(a[1], audioPosition)),
                   last |-> audioPosition, set |-> Some(audioPosition)]
          ELSE IF timeInMs < c.callOffset
          THEN [audio |-> Some(AudioSetTime(AudioPause(a[1]), 0)),
                last |-> 0, set |-> Some(0)]
          ELSE LET endTime == AudioDurationOr0(a[1])
               IN [audio |-> Some(AudioSetTime(AudioPause(a[1]), endTime)),
                   last |-> endTime, set |-> Some(endTime)]
  ELSE IF a # None /\ ~audioEnabled
  THEN [audio |-> Some(AudioPause(a[1])), last |-> last, set |-> None]
  ELSE [audio |-> a, last |-> last, set |-> None]

\* A seek that leaves the audio element as it finds it.
SeekPauseAudio_Skip(a) == a

\* "Pause audio immediately when seeking starts"
SeekPauseAudio(a) == IF a # None /\ ~a[1].paused THEN Some(AudioPause(a[1])) ELSE a

\* The value handleSeek passes to setIsPlaying before anything else.
SeekIsPlaying == FALSE

\* isSeekingRef.current when handleSeek returns: set at its start, cleared by
\* the catch of recreateReplayerAtPosition, otherwise left to the 300 ms timer
\* (which an early return never starts).
SeekFlagAfter(refused, threw) == ~threw

\* A seek that records its target as base whether or not it recreated.
SeekBaseAfter_Always(kept, timeInMs) == Some(timeInMs)

\* seekBaseTimeRef.current after recreateReplayerAtPosition: the target once
\* the new instance is installed, untouched on an early return or a throw.
SeekBaseAfter(kept, timeInMs) == IF kept THEN seekBaseTimeRef ELSE Some(timeInMs)

\* handleSeek(timeInMs) with recreateReplayerAtPosition.
\* threw: the Replayer constructor threw (caught by recreateReplayerAtPosition).
HandleSeek(timeInMs, threw) ==
  /\ seeksLeft > 0
  /\ timeInMs <= duration
  /\ IF replayerRef = None \/ firstEventTimestamp = None \/ (eventsRef = 0 /\ events = 0)
     THEN /\ ~threw
          /\ lastOp' = [Op("seek") EXCEPT !.t = timeInMs, !.outcome = "ignored"]
          /\ UNCHANGED << replayerRef, orphans, nextId, isSeekingRef, seekTimers,
                          seekBaseTimeRef, isPlaying, currentTime, playbackSpeed,
                          callConfig, audioEnabled, audio, lastAudioPositionRef,
                          lastSeek >>
     ELSE LET wasPlaying == isPlaying
              old == IF wasPlaying THEN PrimPause(replayerRef[1]) ELSE replayerRef[1]
              heard == wasPlaying /\ replayerRef[1].listeners
              a1 == SeekPauseAudio(audio)
              eventsToApply == SeekEvents(timeInMs)
              refused == Len(eventsToApply) < 2
              kept == refused \/ threw       \* no new instance is installed
              sa == SeekAudio(a1, lastAudioPositionRef, timeInMs)
          IN /\ ~(refused /\ threw)
             /\ isSeekingRef' = SeekFlagAfter(refused, threw)
             /\ replayerRef' = IF kept THEN Some(old)
                               ELSE Some(NewReplayer(nextId, 0, eventsToApply,
                                                     playbackSpeed, TRUE))
             /\ orphans' = IF kept THEN orphans ELSE Supersede(Some(old))
             /\ nextId' = IF kept THEN nextId ELSE nextId + 1
             /\ seekBaseTimeRef' = SeekBaseAfter(kept, timeInMs)
             /\ seekTimers' = IF kept THEN seekTimers ELSE seekTimers + 1
             /\ lastSeek' = Some([t |-> timeInMs, wasPlaying |-> wasPlaying,
                                  outcome |-> IF refused THEN "refused"
                                              ELSE IF threw THEN "threw"
                                              ELSE "recreated"])
             /\ Render([Op("seek") EXCEPT !.t = timeInMs,
                                          !.outcome = IF refused THEN "refused"
                                                      ELSE IF threw THEN "threw"
                                                      ELSE "recreated",
                                          !.notified = IF heard THEN {"pause"} ELSE {},
                                          !.direct = TRUE,
                                          !.audioSet = sa.set],
                       IF refused THEN currentTime ELSE timeInMs,
                       callConfig, playbackSpeed, SeekIsPlaying, audioEnabled,
                       sa.audio, sa.last)
  /\ seeksLeft' = seeksLeft - 1
  /\ UNCHANGED << events, eventsRef, loads, duration, configDone, firstEventTimestamp,
                  loadsLeft, syncLog, asm, call >>

\* The 300 ms timer of recreateReplayerAtPosition clears the Seeking flag.
SeekTimerFire ==
  /\ seekTimers > 0
  /\ seekTimers' = seekTimers - 1
  /\ isSeekingRef' = FALSE
  /\ lastOp' = Op("seekTimer")
  /\ UNCHANGED << events, eventsRef, loads, replayerRef, orphans, nextId,
                  seekBaseTimeRef, isPlaying, currentTime, duration, playbackSpeed,
                  callConfig, configDone, firstEventTimestamp, audioEnabled, audio,
                  lastAudioPositionRef, loadsLeft, seeksLeft,
                  lastSeek, syncLog, asm, call >>

\* ------------------------------------------------------- play / pause
\* A play handler that sets isPlaying itself, whether or not a listener heard.
PlayIsPlaying_Optimistic(heard) == TRUE

\* The value of isPlaying after replayer.play() / replayer.pause() was called
\* from handlePlayPause: only the listeners write it.
PlayIsPlaying(heard) == IF heard THEN TRUE ELSE isPlaying
PauseIsPlaying(heard) == IF heard THEN FALSE ELSE isPlaying

InCallNow ==
  callConfig # None /\
  isWithinCallPeriod(currentTime, callConfig[1].callOffset, callConfig[1].callDuration)

HandlePlayPause ==
  /\ IF replayerRef = None
     THEN /\ lastOp' = [Op("playPause") EXCEPT !.outcome = "ignored"]
          /\ UNCHANGED << replayerRef, isPlaying, currentTime, playbackSpeed, callConfig,
                          audioEnabled, audio, lastAudioPositionRef, lastSeek >>
     ELSE LET heard == replayerRef[1].listeners
          IN IF isPlaying
             THEN /\ replayerRef' = Some(PrimPause(replayerRef[1]))
                  /\ lastSeek' = lastSeek
                  /\ Render([Op("pause") EXCEPT !.notified = IF heard THEN {"pause"} ELSE {}],
                            currentTime, callConfig, playbackSpeed,
                            PauseIsPlaying(heard), audioEnabled,
                            IF audio # None /\ ~audio[1].paused /\ audioEnabled
                            THEN Some(AudioPause(audio[1])) ELSE audio,
                            lastAudioPositionRef)
             ELSE /\ replayerRef' = Some(PrimPlay(replayerRef[1]))
                  /\ lastSeek' = None
                  /\ Render([Op("play") EXCEPT !.notified = IF heard THEN {"start"} ELSE {}],
                            currentTime, callConfig, playbackSpeed,
                            PlayIsPlaying(heard), audioEnabled,
                            IF audio # None /\ audioEnabled /\ InCallNow
                            THEN Some(AudioPlay(audio[1])) ELSE audio,
                            lastAudioPositionRef)
  /\ UNCHANGED << events, eventsRef, loads, orphans, nextId, isSeekingRef, seekTimers,
                  seekBaseTimeRef, duration, configDone, firstEventTimestamp, loadsLeft,
                  seeksLeft, syncLog, asm, call >>

\* ----------------------------------------------- rate, audio toggle
HandleSpeedChange(speed) ==
  /\ speed \in Speeds
  /\ IF replayerRef = None
     THEN /\ lastOp' = [Op("setRate") EXCEPT !.t = speed, !.outcome = "ignored"]
          /\ UNCHANGED << replayerRef, isPlaying, currentTime, playbackSpeed, callConfig,
                          audioEnabled, audio, lastAudioPositionRef >>
     ELSE /\ replayerRef' = Some([replayerRef[1] EXCEPT !.speed = speed])
          /\ Render([Op("setRate") EXCEPT !.t = speed],
                    currentTime, callConfig, speed, isPlaying, audioEnabled,
                    IF audio # None THEN Some([audio[1] EXCEPT !.rate = speed]) ELSE audio,
                    lastAudioPositionRef)
  /\ UNCHANGED << events, eventsRef, loads, orphans, nextId, isSeekingRef, seekTimers,
                  seekBaseTimeRef, duration, configDone, firstEventTimestamp, loadsLeft, seeksLeft,
                  lastSeek, syncLog, asm, call >>

\* The toggle button is rendered only when callConfig is set.
HandleAudioToggle ==
  /\ callConfig # None
  /\ LET newAudioEnabled == ~audioEnabled
         a1 == IF audio = None THEN audio
               ELSE IF ~newAudioEnabled
               THEN (IF ~audio[1].paused THEN Some(AudioPause(audio[1])) ELSE audio)
               ELSE IF isPlaying /\ InCallNow THEN Some(AudioPlay(audio[1]))
               ELSE audio
     IN Render(Op("audioToggle"), currentTime, callConfig, playbackSpeed, isPlaying,
               newAudioEnabled, a1, lastAudioPositionRef)
  /\ UNCHANGED << events, eventsRef, loads, replayerRef, orphans, nextId, isSeekingRef,
                  seekTimers, seekBaseTimeRef, duration, configDone,
                  firstEventTimestamp, loadsLeft, seeksLeft,
                  lastSeek, syncLog, asm, call >>

\* loadCallConfig returns: with a usable configuration the audio element is
\* rendered; otherwise callConfig stays null.
CallConfigArrives ==
  /\ ~configDone
  /\ configDone' = TRUE
  /\ \E ok \in BOOLEAN :
       Render([Op("callConfig") EXCEPT !.outcome = IF ok THEN "done" ELSE "none"],
              currentTime, IF ok THEN Some(TheCallConfig) ELSE None,
              playbackSpeed, isPlaying, audioEnabled,
              IF ok THEN Some(NewAudio(AudioDurationUs)) ELSE None, lastAudioPositionRef)
  /\ UNCHANGED << events, eventsRef, loads, replayerRef, orphans, nextId, isSeekingRef,
                  seekTimers, seekBaseTimeRef, duration, firstEventTimestamp, loadsLeft, seeksLeft,
                  lastSeek, syncLog, asm, call >>

\* ------------------------------------------------- the environment
\* The live primitive's clock advances while it plays; at the end of its input
\* it stops and notifies finish.
PrimAdvanceBy(step) ==
  /\ replayerRef # None
  /\ replayerRef[1].playing
  /\ LET p == replayerRef[1]
         total == PrimTotal(p.evs)
         time1 == Min(p.time + step, total)
         finished == time1 >= total
         heard == finished /\ p.listeners
     IN /\ replayerRef' = Some([p EXCEPT !.time = time1,
                                         !.playing = ~finished])
        /\ Render([Op("advance") EXCEPT !.outcome = IF finished THEN "finish" ELSE "done",
                                        !.notified = IF heard THEN {"finish"} ELSE {}],
                  currentTime, callConfig, playbackSpeed,
                  IF heard THEN FALSE ELSE isPlaying, audioEnabled,
                  audio, lastAudioPositionRef)
  /\ UNCHANGED << events, eventsRef, loads, orphans, nextId, isSeekingRef, seekTimers,
                  seekBaseTimeRef, duration, configDone, firstEventTimestamp, loadsLeft, seeksLeft,
                  lastSeek, syncLog, asm, call >>

PrimAdvance == PrimAdvanceBy(PrimStepMs)

\* A superseded instance that was left playing reaches its end.
OrphanFinish ==
  /\ \E o \in orphans :
       /\ orphans' = orphans \ {o}
       /\ Render([Op("orphanFinish") EXCEPT !.notified = IF o.listeners THEN {"finish"}
                                                         ELSE {}],
                 currentTime, callConfig, playbackSpeed,
                 IF o.listeners THEN FALSE ELSE isPlaying, audioEnabled,
                 audio, lastAudioPositionRef)
  /\ UNCHANGED << events, eventsRef, loads, replayerRef, nextId, isSeekingRef,
                  seekTimers, seekBaseTimeRef, duration, configDone,
                  firstEventTimestamp, loadsLeft, seeksLeft,
                  lastSeek, syncLog, asm, call >>

\* The audio element loads: its length becomes known and it can play
\* (readyState 2, the level the sync effect asks for).
AudioLoad ==
  /\ audio # None
  /\ audio[1].readyState < 2
  /\ audio' = Some([audio[1] EXCEPT !.readyState = 2,
                                    !.pos = Min(@, audio[1].fileUs)])
  /\ lastOp' = Op("audioLoad")
  /\ UNCHANGED << events, eventsRef, loads, replayerRef, orphans, nextId, isSeekingRef,
                  seekTimers, seekBaseTimeRef, isPlaying, currentTime, duration,
                  playbackSpeed, callConfig, configDone, firstEventTimestamp,
                  audioEnabled, lastAudioPositionRef, loadsLeft, seeksLeft,
                  lastSeek, syncLog, asm, call >>

\* The audio plays on; at its end it pauses and fires ended (onEnded pins the
\* position to the duration).
AudioAdvance ==
  /\ audio # None
  /\ ~audio[1].paused
  /\ audio[1].readyState = 2
  /\ LET pos1 == Min(audio[1].pos + AudioStepUs * audio[1].rate, audio[1].fileUs)
         ended == pos1 >= audio[1].fileUs
     IN /\ audio' = Some([audio[1] EXCEPT !.pos = pos1, !.paused = ended])
        /\ lastOp' = [Op("audioAdvance") EXCEPT !.outcome = IF ended THEN "ended"
                                                            ELSE "done"]
  /\ UNCHANGED << events, eventsRef, loads, replayerRef, orphans, nextId, isSeekingRef,
                  seekTimers, seekBaseTimeRef, isPlaying, currentTime, duration,
                  playbackSpeed, callConfig, configDone, firstEventTimestamp,
                  audioEnabled, lastAudioPositionRef, loadsLeft, seeksLeft,
                  lastSeek, syncLog, asm, call >>

\* The sync effect is evaluated again on the state as it is (no dependency
\* changed in between). The log keeps what each evaluation started from and did.
ReEvaluate ==
  /\ (IF syncLog = None THEN TRUE ELSE syncLog[1].n < 2)
  /\ LET r == SyncEffect(currentTime, callConfig, playbackSpeed, isPlaying,
                         audioEnabled, audio, lastAudioPositionRef)
     IN /\ audio' = r.audio
        /\ lastAudioPositionRef' = r.last
        /\ syncLog' = Some([n |-> IF syncLog = None THEN 1 ELSE syncLog[1].n + 1,
                            branch |-> r.branch, wrote |-> r.wrote, played |-> r.played,
                            target |-> r.target, set |-> r.set,
                            prePos |-> IF audio = None THEN 0 ELSE audio[1].pos,
                            preLast |-> lastAudioPositionRef,
                            firstWrote |-> IF syncLog = None THEN r.wrote
                                           ELSE syncLog[1].firstWrote])
  /\ lastOp' = Op("sync")
  /\ UNCHANGED << events, eventsRef, loads, replayerRef, orphans, nextId, isSeekingRef,
                  seekTimers, seekBaseTimeRef, isPlaying, currentTime, duration,
                  playbackSpeed, callConfig, configDone, firstEventTimestamp,
                  audioEnabled, loadsLeft, seeksLeft, lastSeek, asm, call >>

\* ----------------------------------------------------- specification
Next ==
  \/ \E rec \in RecIds : LoadStart(rec)
  \/ \E g \in 1..Len(loads) : InitTimeoutFire(g)
  \/ \E g \in 1..Len(loads) : ConstructFire(g)
  \/ \E g \in 1..Len(loads) : SetupFire(g)
  \/ \E g \in 1..Len(loads), valid \in BOOLEAN : Tick(g, valid)
  \/ \E t \in SeekTargets, threw \in BOOLEAN : HandleSeek(t, threw)
  \/ SeekTimerFire
  \/ HandlePlayPause
  \/ \E s \in Speeds : HandleSpeedChange(s)
  \/ HandleAudioToggle
  \/ CallConfigArrives
  \/ PrimAdvance
  \/ OrphanFinish
  \/ AudioLoad
  \/ AudioAdvance

Spec == Init /\ [][Next]_vars

\* The sync effect as a function of its inputs: every combination of virtual
\* time, rate, play state, enabled flag, audio element state and last position
\* set, over a call window [300, 20300] ms and audio files of 0.8 s and 15 s.
SyncCallConfig == [callOffset |-> 300, callDuration |-> 20000]
SyncTimes == {0, 250, 400, 1000, 10350, 12300, 20400, 24300}
SyncPositions == {0, 50000, 700000, 800000, 9400000, 10000000, 15000000}
SyncLasts == {LastInit, 0, 800000, 10000000, 12000000}
SyncFiles == {800000, 15000000}

InitSync ==
  /\ events = 0
  /\ eventsRef = 0
  /\ loads = << >>
  /\ replayerRef = None
  /\ orphans = {}
  /\ nextId = 1
  /\ isSeekingRef = FALSE
  /\ seekTimers = 0
  /\ seekBaseTimeRef = None
  /\ isPlaying \in BOOLEAN
  /\ currentTime \in SyncTimes
  /\ duration = 0
  /\ playbackSpeed \in Speeds
  /\ callConfig = Some(SyncCallConfig)
  /\ configDone = TRUE
  /\ firstEventTimestamp = None
  /\ audioEnabled \in BOOLEAN
  /\ audio \in {Some([paused |-> p, pos |-> x, rate |-> 1, readyState |-> rs, fileUs |-> f]) :
                  p \in BOOLEAN, x \in SyncPositions, rs \in {0, 2}, f \in SyncFiles}
  /\ (audio[1].readyState >= 1 => audio[1].pos <= audio[1].fileUs)
  /\ lastAudioPositionRef \in SyncLasts
  /\ loadsLeft = 0
  /\ seeksLeft = 0
  /\ lastSeek = None
  /\ syncLog = None
  /\ asm = AsmIdle
  /\ call = CallIdle
  /\ lastOp = Op("init")

NextSync == ReEvaluate

SpecSync == InitSync /\ [][NextSync]_vars

\* One recording replaces another: two loads and one seek, no call
\* configuration (loadCallConfig returned without one), constructors that do
\* not throw.
InitReload ==
  /\ events = 0
  /\ eventsRef = 0
  /\ loads = << >>
  /\ replayerRef = None
  /\ orphans = {}
  /\ nextId = 1
  /\ isSeekingRef = FALSE
  /\ seekTimers = 0
  /\ seekBaseTimeRef = None
  /\ isPlaying = FALSE
  /\ currentTime = 0
  /\ duration = 0
  /\ playbackSpeed = 1
  /\ callConfig = None
  /\ configDone = TRUE
  /\ firstEventTimestamp = None
  /\ audioEnabled = TRUE
  /\ audio = None
  /\ lastAudioPositionRef = LastInit
  /\ loadsLeft = MaxReloads
  /\ seeksLeft = MaxReloadSeeks
  /\ lastSeek = None
  /\ syncLog = None
  /\ asm = AsmIdle
  /\ call = CallIdle
  /\ lastOp = Op("init")

NextReload ==
  \/ \E rec \in RecIds : LoadStart(rec)
  \/ \E g \in 1..Len(loads) : InitTimeoutFire(g)
  \/ \E g \in 1..Len(loads) : ConstructFire(g)
  \/ \E g \in 1..Len(loads) : SetupFire(g)
  \/ \E g \in 1..Len(loads), valid \in BOOLEAN : Tick(g, valid)
  \/ \E t \in SeekTargets : HandleSeek(t, FALSE)
  \/ SeekTimerFire
  \/ HandlePlayPause
  \/ PrimAdvance
  \/ OrphanFinish

SpecReload == InitReload /\ [][NextReload]_vars

\* Loads of recordings without a FullSnapshot only, with the handlers of the
\* controls and the call configuration.
InitUnplayable ==
  /\ events = 0
  /\ eventsRef = 0
  /\ loads = << >>
  /\ replayerRef = None
  /\ orphans = {}
  /\ nextId = 1
  /\ isSeekingRef = FALSE
  /\ seekTimers = 0
  /\ seekBaseTimeRef = None
  /\ isPlaying = FALSE
  /\ currentTime = 0
  /\ duration = 0
  /\ playbackSpeed = 1
  /\ callConfig = None
  /\ configDone = FALSE
  /\ firstEventTimestamp = None
  /\ audioEnabled = TRUE
  /\ audio = None
  /\ lastAudioPositionRef = LastInit
  /\ loadsLeft = MaxReloads
  /\ seeksLeft = MaxSeeks
  /\ lastSeek = None
  /\ syncLog = None
  /\ asm = AsmIdle
  /\ call = CallIdle
  /\ lastOp = Op("init")

NextUnplayable ==
  \/ \E rec \in UnplayableIds : LoadStart(rec)
  \/ \E g \in 1..Len(loads) : InitTimeoutFire(g)
  \/ \E t \in SeekTargets : HandleSeek(t, FALSE)
  \/ HandlePlayPause
  \/ \E sp \in Speeds : HandleSpeedChange(sp)
  \/ HandleAudioToggle
  \/ CallConfigArrives
  \/ AudioLoad

SpecUnplayable == InitUnplayable /\ [][NextUnplayable]_vars

\* Playback resumed after a seek: one load of the four-event recording, a
\* seek to 800 ms, play and pause, and the primitive's clock read by the
\* polling ticks every ResumeStepMs of its time.  No call configuration.
ResumeStepMs == 100
ResumeTargets == {800}

InitResume ==
  /\ events = 0
  /\ eventsRef = 0
  /\ loads = << >>
  /\ replayerRef = None
  /\ orphans = {}
  /\ nextId = 1
  /\ isSeekingRef = FALSE
  /\ seekTimers = 0
  /\ seekBaseTimeRef = None
  /\ isPlaying = FALSE
  /\ currentTime = 0
  /\ duration = 0
  /\ playbackSpeed = 1
  /\ callConfig = None
  /\ configDone = TRUE
  /\ firstEventTimestamp = None
  /\ audioEnabled = TRUE
  /\ audio = None
  /\ lastAudioPositionRef = LastInit
  /\ loadsLeft = MaxLoads
  /\ seeksLeft = MaxReloadSeeks
  /\ lastSeek = None
  /\ syncLog = None
  /\ asm = AsmIdle
  /\ call = CallIdle
  /\ lastOp = Op("init")

NextResume ==
  \/ \E rec \in LongIds : LoadStart(rec)
  \/ \E g \in 1..Len(loads) : InitTimeoutFire(g)
  \/ \E g \in 1..Len(loads) : ConstructFire(g)
  \/ \E g \in 1..Len(loads) : SetupFire(g)
  \/ \E g \in 1..Len(loads), valid \in BOOLEAN : Tick(g, valid)
  \/ \E t \in ResumeTargets : HandleSeek(t, FALSE)
  \/ SeekTimerFire
  \/ HandlePlayPause
  \/ PrimAdvanceBy(ResumeStepMs)

SpecResume == InitResume /\ [][NextResume]_vars

\* The same inputs with the audio toggle: the track is switched off and on
\* around the evaluations of the sync effect.
NextToggle == ReEvaluate \/ HandleAudioToggle

SpecToggle == InitSync /\ [][NextToggle]_vars

\* ==================================================== the assembler
\* fetchSessionData and its helpers (lib/api).  JavaScript values are modelled
\* by what the code can observe of them.

GzipMagic1 == 31       \* 0x1F
GzipMagic2 == 139      \* 0x8B

\* A string: its leading character codes (all of them for a short string),
\* whether inflating it succeeds, and what the text (the inflated text of a
\* gzip string) parses to as JSON: "arr" v, "num", "obj" v, or "bad" (not
\* JSON).
StrOf(chars, ok, json, v) == [chars |-> chars, ok |-> ok, json |-> json, v |-> v]

\* A string that begins with the gzip magic bytes and the deflate method byte
\* (gz), or with the character '['.
Str(gz, ok, json, v) ==
  StrOf(IF gz THEN << GzipMagic1, GzipMagic2, 8 >> ELSE << 91 >>, ok, json, v)

\* A test of the first character code alone.
isCompressed_FirstOnly(s) == Len(s.chars) > 0 /\ s.chars[1] = GzipMagic1

\* str.length > 1 && str.charCodeAt(0) === 0x1F && str.charCodeAt(1) === 0x8B
isCompressed(s) ==
  Len(s.chars) > 1 /\ s.chars[1] = GzipMagic1 /\ s.chars[2] = GzipMagic2
NoStr == Str(FALSE, FALSE, "bad", << >>)

\* A field value: "missing" (undefined), "arr" (array v), "num", "obj"
\* (object v), "str" (non-empty string s), "empty" (the string "").
Val(tag, v, s) == [tag |-> tag, v |-> v, s |-> s]
Missing == Val("missing", << >>, NoStr)
Arr(v) == Val("arr", v, NoStr)
Num == Val("num", << >>, NoStr)
Obj(v) == Val("obj", v, NoStr)
EmptyStr == Val("empty", << >>, NoStr)
StrVal(s) == Val("str", << >>, s)
GzOf(json, v) == StrVal(Str(TRUE, TRUE, json, v))
GzCorrupt == StrVal(Str(TRUE, FALSE, "bad", << >>))
TextOf(json, v) == StrVal(Str(FALSE, FALSE, json, v))

\* The data field of an event: "missing", "ref" (the object dataHeap[ref]),
\* "str" (the string s) or "parsed" (a fresh value JSON.parse returned).
Data(tag, ref, s) == [tag |-> tag, ref |-> ref, s |-> s]
NoData == Data("missing", 0, NoStr)
RefData(d) == Data("ref", d, NoStr)
StrData(s) == Data("str", 0, s)
ParsedData(s) == Data("parsed", 0, Str(FALSE, FALSE, s.json, s.v))

MkData(n, r, a, t, at) ==
  [node |-> n, removes |-> r, adds |-> a, texts |-> t, attributes |-> at]

MkEv(hasType, type, ts, cv, delay, data) ==
  [hasType |-> hasType, type |-> type, timestamp |-> ts, cv |-> cv,
   delay |-> delay, data |-> data]

\* pako.inflate(bytes, {to: 'string'}): the text, or None when it throws.
Inflate(s) == IF isCompressed(s) /\ s.ok THEN Some(Str(FALSE, FALSE, s.json, s.v)) ELSE None

\* JSON.parse(text): the value, or None when it throws.
JSONParse(s) == IF isCompressed(s) \/ s.json = "bad" THEN None ELSE Some(Val(s.json, s.v, NoStr))

decompressField(s) ==
  LET text == Inflate(s)
      parsed == JSONParse(text[1])
  IN IF text = None THEN Arr(<< >>)
     ELSE IF parsed = None THEN Arr(<< >>)
     ELSE IF parsed[1].tag = "arr" THEN parsed[1] ELSE Arr(<< >>)

\* The body of the loop over 'removes', 'adds', 'texts', 'attributes'.
NormalizeField(val) ==
  LET parsed == JSONParse(val.s)
      step == IF val.tag = "str"
              THEN IF isCompressed(val.s) THEN decompressField(val.s)
                   ELSE IF parsed = None THEN val ELSE parsed[1]
              ELSE val
  IN IF step.tag = "arr" THEN step ELSE Arr(<< >>)

MutationFields == {"removes", "adds", "texts", "attributes"}

\* ------------------------------------------------------------ inputs
MaxRecs == 2           \* raw records in the richly varied chunk

\* The payload objects of the input: Incremental payloads whose four
\* sub-lists cover every form the code distinguishes, and a FullSnapshot
\* node tree.
DataPool ==
  << MkData(Missing, Arr(<< 1 >>), GzOf("arr", << 2, 3 >>), TextOf("arr", << 4 >>), Missing),
     MkData(Missing, GzCorrupt, GzOf("num", << >>), TextOf("bad", << >>), Num),
     MkData(Missing, Obj(<< 5 >>), TextOf("num", << >>), EmptyStr,
            StrVal(Str(TRUE, TRUE, "bad", << >>))),
     MkData(Missing, Arr(<< >>), Arr(<< 6 >>), Arr(<< 7 >>), Arr(<< 8 >>)),
     MkData(Obj(<< 9 >>), Missing, Missing, Missing, Missing) >>

\* The event objects of the input; timestamps are not in the order of ids.
EventPool ==
  << MkEv(TRUE, "n4", 1000, Num, Num, NoData),
     MkEv(TRUE, "n2", 1005, Num, Missing, RefData(5)),
     MkEv(TRUE, "n2", 1300, Missing, Missing, StrData(Str(TRUE, TRUE, "obj", << 9 >>))),
     MkEv(TRUE, "n2", 1200, Num, Missing, StrData(Str(TRUE, FALSE, "bad", << >>))),
     MkEv(TRUE, "s2", 1100, Missing, Num, StrData(Str(TRUE, TRUE, "obj", << 9 >>))),
     MkEv(TRUE, "n2", 1150, Missing, Missing, StrData(Str(TRUE, TRUE, "num", << >>))),
     MkEv(TRUE, "n3", 1500, Num, Num, RefData(1)),
     MkEv(TRUE, "n3", 1400, Missing, Missing, RefData(2)),
     MkEv(TRUE, "n3", 1450, Num, Missing, RefData(3)),
     MkEv(TRUE, "s3", 1350, Num, Num, RefData(2)),
     MkEv(TRUE, "n3", 1600, Missing, Num, NoData),
     MkEv(FALSE, "n4", 1250, Num, Missing, NoData),
     MkEv(TRUE, "n3", 1550, Missing, Missing, RefData(4)) >>

\* A raw record of a chunk: a bare event object, a tuple [sid, event], a
\* one-element array [event], a tuple [sid, number], null, a string, a
\* number, or (in line-delimited payloads) a line that is not JSON ("bad")
\* or a line of white space ("blank").
Item(wrap, sid, ev) == [wrap |-> wrap, sid |-> sid, ev |-> ev]

RawRecords ==
  {Item(w, "", e) : w \in {"bare"}, e \in 1..Len(EventPool)}
    \cup {Item("tuple", sid, e) : sid \in {"a", "b"}, e \in 1..Len(EventPool)}
    \cup {Item("tuple1", "", 7), Item("tuplenum", "a", 0), Item("null", "", 0),
          Item("str", "", 0), Item("num", "", 0)}

SmallRecords ==
  {Item("bare", "", 7), Item("tuple", "a", 2), Item("tuple", "b", 12),
   Item("null", "", 0)}

SeqsUpTo(S, n) == UNION {[1..k -> S] : k \in 0..n}

\* A chunk payload: a JSON array of records, an object {events: [...]} or
\* {data: [...]}, or lines of text.
Payload(fmt, recs) == [fmt |-> fmt, recs |-> recs]

Chunks1 ==
  {Payload("array", r) : r \in SeqsUpTo(RawRecords, MaxRecs)}
    \cup {Payload(f, r) : f \in {"events", "data"}, r \in SeqsUpTo(SmallRecords, MaxRecs)}
    \cup {Payload("lines", r) :
            r \in SeqsUpTo(SmallRecords \cup {Item("bad", "", 0), Item("blank", "", 0)},
                            MaxRecs)}

Chunks2 ==
  {Payload("array", << Item("tuple", "a", 1) >>),
   Payload("lines", << Item("bad", "", 0) >>),
   Payload("lines", << Item("bare", "", 13), Item("bad", "", 0) >>)}

\* The sources of the sources response: missing, empty, one chunk, or two.
SourceLists ==
  {None, Some(<< >>)}
    \cup {Some(<< c >>) : c \in Chunks1}
    \cup {Some(<< c, d >>) : c \in Chunks1, d \in Chunks2}
    \cup {Some(<< d, c >>) : c \in Chunks1, d \in Chunks2}

\* ------------------------------------------------------- the decoder
\* fetchSnapshotFromSource after a 200 response: JSON.parse of the whole text,
\* else every line that parses; None when it throws 'Failed to parse response
\* as JSON'.  A text of one parsable line, with or without blank lines around
\* it, is that JSON value itself; blank lines are filtered out before the
\* line-by-line parse.
fetchSnapshotFromSource(p) ==
  LET lines == SelectSeq(p.recs, LAMBDA r : r.wrap # "blank")
      good == SelectSeq(lines, LAMBDA r : r.wrap # "bad")
  IN IF p.fmt # "lines" THEN Some([kind |-> p.fmt, items |-> p.recs])
     ELSE IF Len(lines) = 1 /\ Len(good) = 1 THEN Some([kind |-> "value", items |-> good])
     ELSE IF Len(good) > 0 THEN Some([kind |-> "array", items |-> good])
     ELSE None

IsArray(item) == item.wrap \in {"tuple", "tuple1", "tuplenum"}

\* The elements of a record that is an array.
Elements(item) ==
  IF item.wrap = "tuple" THEN << Item("str", "", 0), Item("bare", "", item.ev) >>
  ELSE IF item.wrap = "tuple1" THEN << Item("bare", "", item.ev) >>
  ELSE << Item("str", "", 0), Item("num", "", 0) >>

\* What the fetch loop pushes for one decoded chunk.
Pushed(data) ==
  IF data.kind \in {"array", "events", "data"} THEN data.items
  ELSE IF IsArray(data.items[1]) THEN Elements(data.items[1])
  ELSE << data.items[1] >>

\* Records of a later chunk put in front of the earlier ones.
SnapshotAppend_Front(sd, items) == items \o sd

\* snapshotData.push(...items)
SnapshotAppend(sd, items) == sd \o items

\* sources missing only when the field is absent
SourcesMissing_UndefinedOnly(sources) == sources = None

\* !sourcesResponse.sources || sourcesResponse.sources.length === 0
SourcesMissing(sources) == IF sources = None THEN TRUE ELSE Len(sources[1]) = 0

\* ---------------------------------------------------- the normalizer
\* An extraction that takes element [0] of a tuple.
ResolveItem_First(eh, item) ==
  IF item.wrap = "null" THEN None
  ELSE IF IsArray(item) /\ Len(Elements(item)) >= 2
       THEN IF Elements(item)[1].wrap = "bare" THEN Some(Elements(item)[1].ev) ELSE None
  ELSE IF item.wrap = "bare" THEN IF eh[item.ev].hasType THEN Some(item.ev) ELSE None
  ELSE None

\* The event object of one raw record: element [1] of an array of two or more
\* elements, or the record itself, when it is an object with a 'type' field.
ResolveItem(eh, item) ==
  IF item.wrap = "null" THEN None
  ELSE IF IsArray(item) /\ Len(Elements(item)) >= 2
       THEN IF Elements(item)[2].wrap = "bare"
            THEN IF eh[Elements(item)[2].ev].hasType THEN Some(Elements(item)[2].ev) ELSE None
            ELSE None
  ELSE IF item.wrap = "bare" THEN IF eh[item.ev].hasType THEN Some(item.ev) ELSE None
  ELSE None

\* extractedEvents, as ids of event objects
Extract(eh, sd) ==
  LET res == [i \in 1..Len(sd) |-> ResolveItem(eh, sd[i])]
      kept == SelectSeq(res, LAMBDA r : r # None)
  IN [i \in 1..Len(kept) |-> kept[i][1]]

\* A "copy" that is the input object itself.
CleanedCopy_Alias(eh, e) == [heap |-> eh, id |-> e]

\* const cleaned = { ...event }: a new object with the fields of the event
CleanedCopy(eh, e) == [heap |-> Append(eh, eh[e]), id |-> Len(eh) + 1]

\* processMutationEvent on the object c: the object itself unless its type is
\* the number 3 and it has data; else a new object with a new data object whose
\* four sub-lists are normalized.  (The spread of a string payload has none of
\* the four fields.)
processMutationEvent(st, c) ==
  LET ev == st.eh[c]
      src == IF ev.data.tag = "ref" THEN st.dh[ev.data.ref]
             ELSE MkData(Missing, Missing, Missing, Missing, Missing)
      d == Len(st.dh) + 1
      p == Len(st.eh) + 1
      processedData == [f \in DOMAIN src |->
                          IF f \in MutationFields THEN NormalizeField(src[f]) ELSE src[f]]
  IN IF ev.type # "n3" \/ ev.data.tag = "missing"
     THEN [eh |-> st.eh, dh |-> st.dh, id |-> c]
     ELSE [eh |-> Append(st.eh, [ev EXCEPT !.data = RefData(d)]),
           dh |-> Append(st.dh, processedData),
           id |-> p]

\* One iteration of the processing loop for the extracted event e.
ProcessEvent(st, e) ==
  LET cc == CleanedCopy(st.eh, e)
      c == cc.id
      eh1 == [cc.heap EXCEPT ![c].cv = Missing, ![c].delay = Missing]
      ev == eh1[c]
      pm == processMutationEvent([eh |-> eh1, dh |-> st.dh], c)
      text == Inflate(ev.data.s)
      parsed == JSONParse(text[1])
      replaced == /\ ev.type \in {"n2", "s2"}
                  /\ ev.data.tag = "str"
                  /\ isCompressed(ev.data.s)
                  /\ text # None
                  /\ parsed # None
                  /\ parsed[1].tag \in {"obj", "arr"}
      eh2 == IF replaced THEN [eh1 EXCEPT ![c].data = ParsedData(text[1])] ELSE eh1
  IN IF ev.type \in {"n3", "s3"}
     THEN [eh |-> pm.eh, dh |-> pm.dh, out |-> Append(st.out, pm.id)]
     ELSE [eh |-> eh2, dh |-> st.dh, out |-> Append(st.out, c)]

RECURSIVE ProcessFrom(_, _, _)
ProcessFrom(st, ids, i) ==
  IF i > Len(ids) THEN st ELSE ProcessFrom(ProcessEvent(st, ids[i]), ids, i + 1)

\* Everything after the fetch loop: extraction, processing, return.  A
\* missing FullSnapshot is logged with console.error, twice, and nothing else.
Finished(a) ==
  LET ids == Extract(a.evHeap, a.snapshotData)
      st == ProcessFrom([eh |-> a.evHeap, dh |-> a.dataHeap, out |-> << >>], ids, 1)
  IN [a EXCEPT !.pc = "done", !.extracted = ids, !.evHeap = st.eh,
               !.dataHeap = st.dh, !.out = st.out]

\* The loop over the sources goes on, or the rest of the function runs.
Continue(a) == IF a.fetched = Len(a.sources[1]) THEN Finished(a) ELSE a

playerVars ==
  << events, eventsRef, loads, replayerRef, orphans, nextId, isSeekingRef, seekTimers,
     seekBaseTimeRef, isPlaying, currentTime, duration, playbackSpeed, callConfig,
     configDone, firstEventTimestamp, audioEnabled, audio, lastAudioPositionRef,
     loadsLeft, seeksLeft, lastSeek, syncLog, call, lastOp >>

\* await fetchSources() returns
FetchSourcesReturns ==
  /\ asm.pc = "start"
  /\ asm' = IF SourcesMissing(asm.sources)
            THEN [asm EXCEPT !.pc = "failed", !.error = "NoSources"]
            ELSE Continue([asm EXCEPT !.pc = "fetching"])
  /\ UNCHANGED playerVars

\* await fetchSnapshotFromSource(source) returns or throws; its exception is
\* not caught by fetchSessionData.
FetchSnapshotReturns ==
  /\ asm.pc = "fetching"
  /\ LET data == fetchSnapshotFromSource(asm.sources[1][asm.fetched + 1])
     IN asm' = IF data = None
               THEN [asm EXCEPT !.pc = "failed", !.error = "Decode", !.fetched = @ + 1]
               ELSE Continue([asm EXCEPT !.fetched = @ + 1,
                                         !.snapshotData = SnapshotAppend(@, Pushed(data[1]))])
  /\ UNCHANGED playerVars

InitAssemble ==
  /\ events = 0
  /\ eventsRef = 0
  /\ loads = << >>
  /\ replayerRef = None
  /\ orphans = {}
  /\ nextId = 1
  /\ isSeekingRef = FALSE
  /\ seekTimers = 0
  /\ seekBaseTimeRef = None
  /\ isPlaying = FALSE
  /\ currentTime = 0
  /\ duration = 0
  /\ playbackSpeed = 1
  /\ callConfig = None
  /\ configDone = FALSE
  /\ firstEventTimestamp = None
  /\ audioEnabled = TRUE
  /\ audio = None
  /\ lastAudioPositionRef = LastInit
  /\ loadsLeft = 0
  /\ seeksLeft = 0
  /\ lastSeek = None
  /\ syncLog = None
  /\ lastOp = Op("init")
  /\ call = CallIdle
  /\ \E src \in SourceLists :
       asm = [pc |-> "start", sources |-> src, fetched |-> 0, snapshotData |-> << >>,
              extracted |-> << >>, evHeap |-> EventPool, dataHeap |-> DataPool,
              out |-> << >>, error |-> ""]

NextAssemble == FetchSourcesReturns \/ FetchSnapshotReturns

SpecAssemble == InitAssemble /\ [][NextAssemble]_vars

\* ------------------------------------------- library functions alone
\* The player and the assembler at rest while a library function is called.
AtRest ==
  /\ events = 0
  /\ eventsRef = 0
  /\ loads = << >>
  /\ replayerRef = None
  /\ orphans = {}
  /\ nextId = 1
  /\ isSeekingRef = FALSE
  /\ seekTimers = 0
  /\ seekBaseTimeRef = None
  /\ isPlaying = FALSE
  /\ currentTime = 0
  /\ duration = 0
  /\ playbackSpeed = 1
  /\ callConfig = None
  /\ configDone = FALSE
  /\ firstEventTimestamp = None
  /\ audioEnabled = TRUE
  /\ audio = None
  /\ lastAudioPositionRef = LastInit
  /\ loadsLeft = 0
  /\ seeksLeft = 0
  /\ lastSeek = None
  /\ syncLog = None
  /\ asm = AsmIdle
  /\ lastOp = Op("init")

restVars ==
  << events, eventsRef, loads, replayerRef, orphans, nextId, isSeekingRef, seekTimers,
     seekBaseTimeRef, isPlaying, currentTime, duration, playbackSpeed, callConfig,
     configDone, firstEventTimestamp, audioEnabled, audio, lastAudioPositionRef,
     loadsLeft, seeksLeft, lastSeek, syncLog, asm, lastOp >>

MaxChars == 3          \* characters of a string given to isCompressed

\* Character codes: the two magic bytes, 'A', and 0x11F, whose low byte is 0x1F.
CharCodes == {GzipMagic1, GzipMagic2, 65, 287}

InitStrings ==
  /\ AtRest
  /\ \E chars \in SeqsUpTo(CharCodes, MaxChars) :
       call = [fn |-> "isCompressed", arg |-> chars, result |-> None]

IsCompressedReturns ==
  /\ call.fn = "isCompressed"
  /\ call.result = None
  /\ call' = [call EXCEPT !.result = Some(isCompressed(StrOf(call.arg, FALSE, "bad", << >>)))]
  /\ UNCHANGED restVars

SpecStrings == InitStrings /\ [][IsCompressedReturns]_vars

\* ------------------------------------------------ lib/callSync alone
\* A timestamp text "YYYY-MM-DD hh:mm:ss.sss<zone>": the wall-clock time it
\* writes, in ms since 2025-09-02 00:00, and its zone suffix: "none", "Z",
\* "+00", "+00:00" or "+02:00"; "empty" is the string "".
TS(wall, zone) == [wall |-> wall, zone |-> zone]
EmptyText == TS(0, "empty")

\* A number, NaN, or a thrown Error.
NumResult(n) == [kind |-> "num", v |-> n]
NaNResult == [kind |-> "nan", v |-> 0]
Thrown == [kind |-> "throw", v |-> 0]

HourMs == 3600000

\* new Date(isoString).getTime() for the text with 'T' as separator and the
\* given suffix.  "Z" and none-plus-"Z" are the ECMAScript date-time format.
\* A suffix "+hh" or "+hhmm" is not: how it is read is left to the engine,
\* which either reads it as an offset or gives an Invalid Date (NaN).  The
\* engine is the set of these two forms that it reads.
NewDate(wall, suffix, engine) ==
  IF suffix = "Z" THEN NumResult(wall)
  ELSE IF suffix \in {"+00", "+0000"}
       THEN IF (IF suffix = "+00" THEN "+hh" ELSE "+hhmm") \in engine
            THEN NumResult(wall) ELSE NaNResult
  ELSE IF "+hhmm" \in engine THEN NumResult(wall - 2 * HourMs) ELSE NaNResult

\* timestamp.replace(/([+-]\d{2}):(\d{2})$/, '$1$2')
DropColon(zone) ==
  IF zone = "+00:00" THEN "+0000" ELSE IF zone = "+02:00" THEN "+0200" ELSE zone

\* A parse that reads every text as UTC wall-clock time.
parseTimestamp_IgnoreZone(ts, engine) == NumResult(ts.wall)

parseTimestamp(ts, engine) ==
  IF ts.zone \in {"+00", "+00:00", "+02:00", "Z"}
  THEN NewDate(ts.wall, DropColon(ts.zone), engine)
  ELSE NewDate(ts.wall, "Z", engine)

\* a.getTime() - b.getTime()
TimeDiff(a, b) ==
  IF a.kind = "num" /\ b.kind = "num" THEN NumResult(a.v - b.v) ELSE NaNResult

calculateCallOffset(sessionStartTime, callStartTime, engine) ==
  TimeDiff(parseTimestamp(callStartTime, engine), parseTimestamp(sessionStartTime, engine))

\* An optional string argument is given when it is neither undefined nor "".
Given(opt) == IF opt = None THEN FALSE ELSE opt[1].zone # "empty"

\* A duration text: "empty" is "", digits is the integer its leading digits
\* write (None when it does not begin with a digit), rest tells whether other
\* characters follow the digits.
DurText(zone, digits, rest) == [zone |-> zone, digits |-> digits, rest |-> rest]

\* parseInt(text, 10)
ParseInt(text) == IF text.digits = None THEN NaNResult ELSE NumResult(text.digits[1])

\* A calculation that prefers the explicit duration.
calculateCallDuration_DurationFirst(callStartTime, callEndTime, callDurationMs, engine) ==
  IF Given(callDurationMs) THEN ParseInt(callDurationMs[1])
  ELSE IF Given(callEndTime)
       THEN TimeDiff(parseTimestamp(callEndTime[1], engine),
                     parseTimestamp(callStartTime, engine))
  ELSE Thrown

calculateCallDuration(callStartTime, callEndTime, callDurationMs, engine) ==
  IF Given(callEndTime)
  THEN TimeDiff(parseTimestamp(callEndTime[1], engine), parseTimestamp(callStartTime, engine))
  ELSE IF Given(callDurationMs) THEN ParseInt(callDurationMs[1])
  ELSE Thrown

\* Inputs: virtual times around the boundaries of call windows; the two
\* instants of the scenario (20:21:51.526 and 20:22:00.227) and one more, in
\* every zone form; the engines; the duration texts "1000", "12abc", "abc",
\* "0", "" and undefined.
MaxTimeMs == 10
SyncOffsets == {-2, 0, 3, 5}
SyncDurations == {0, 1, 4}
Walls == {73311526, 73320227, 73320000}
Zones == {"none", "Z", "+00", "+00:00", "+02:00"}
TimestampTexts == {TS(w, z) : w \in Walls, z \in Zones}
Engines == SUBSET {"+hh", "+hhmm"}
DurationTexts ==
  {None, Some(DurText("empty", None, FALSE)), Some(DurText("", Some(1000), FALSE)),
   Some(DurText("", Some(12), TRUE)), Some(DurText("", None, TRUE)),
   Some(DurText("", Some(0), FALSE))}

InitCallSync ==
  /\ AtRest
  /\ \/ \E t \in 0..MaxTimeMs, o \in SyncOffsets, d \in SyncDurations :
          call = [fn |-> "isWithinCallPeriod", t |-> t, offset |-> o, duration |-> d,
                  result |-> None]
     \/ \E t \in 0..MaxTimeMs, o \in SyncOffsets, r \in Speeds :
          call = [fn |-> "calculateAudioPosition", t |-> t, offset |-> o, speed |-> r,
                  result |-> None]
     \/ \E st \in TimestampTexts, en \in {None, Some(EmptyText)} \cup {Some(x) : x \in TimestampTexts},
           du \in DurationTexts, e \in Engines :
          call = [fn |-> "calculateCallDuration", start |-> st, end |-> en, dur |-> du,
                  engine |-> e, result |-> None]
     \/ \E se \in TimestampTexts, st \in TimestampTexts, e \in Engines :
          call = [fn |-> "calculateCallOffset", session |-> se, start |-> st,
                  engine |-> e, result |-> None]

IsWithinCallPeriodReturns ==
  /\ call.fn = "isWithinCallPeriod"
  /\ call.result = None
  /\ call' = [call EXCEPT !.result =
                Some(isWithinCallPeriod(call.t, call.offset, call.duration))]
  /\ UNCHANGED restVars

CalculateAudioPositionReturns ==
  /\ call.fn = "calculateAudioPosition"
  /\ call.result = None
  /\ call' = [call EXCEPT !.result =
                Some(calculateAudioPosition(call.t, call.offset, call.speed))]
  /\ UNCHANGED restVars

CalculateCallDurationReturns ==
  /\ call.fn = "calculateCallDuration"
  /\ call.result = None
  /\ call' = [call EXCEPT !.result =
                Some(calculateCallDuration(call.start, call.end, call.dur, call.engine))]
  /\ UNCHANGED restVars

CalculateCallOffsetReturns ==
  /\ call.fn = "calculateCallOffset"
  /\ call.result = None
  /\ call' = [call EXCEPT !.result =
                Some(calculateCallOffset(call.session, call.start, call.engine))]
  /\ UNCHANGED restVars

NextCallSync ==
  \/ IsWithinCallPeriodReturns
  \/ CalculateAudioPositionReturns
  \/ CalculateCallDurationReturns
  \/ CalculateCallOffsetReturns

SpecCallSync == InitCallSync /\ [][NextCallSync]_vars

\* ------------------------------------------ the call configuration
\* The fields of the server's call configuration, and of the JSON the client
\* receives: the audio URL is present or not, the other four are None
\* (undefined) or a text.
CfgData(url, ss, cs, ce, cd) ==
  [ok |-> TRUE, callAudioUrl |-> url, sessionStartTime |-> ss, callStartTime |-> cs,
   callEndTime |-> ce, callDuration |-> cd]

\* NextResponse.json({})
EmptyData == CfgData(FALSE, None, None, None, None)

\* GET /api/call-config: the five fields when all required ones are present,
\* else the empty object.
CallConfigRoute(cfg) ==
  IF /\ cfg.callAudioUrl
     /\ Given(cfg.sessionStartTime)
     /\ Given(cfg.callStartTime)
     /\ (Given(cfg.callEndTime) \/ Given(cfg.callDuration))
  THEN cfg ELSE EmptyData

\* A loadCallConfig that takes a call without duration as one of length 0.
loadCallConfig_ZeroDuration(data, engine) ==
  IF ~data.ok \/ ~data.callAudioUrl THEN None
  ELSE IF data.sessionStartTime = None \/ data.callStartTime = None THEN None
  ELSE Some([callOffset |-> calculateCallOffset(data.sessionStartTime[1],
                                                data.callStartTime[1], engine).v,
             callDuration |-> calculateCallDuration(data.callStartTime[1], data.callEndTime,
                                                    data.callDuration, engine).v])

\* loadCallConfig: the value given to setCallConfig, or None when it returns
\* without calling it: response not ok, no audio URL, or an exception caught
\* (parseTimestamp of an undefined text throws a TypeError, calculateCallDuration
\* throws without end time and duration).  The texts of the inputs are in the
\* standard forms, for which offset and duration are numbers.
loadCallConfig(data, engine) ==
  IF ~data.ok \/ ~data.callAudioUrl THEN None
  ELSE IF data.sessionStartTime = None \/ data.callStartTime = None THEN None
  ELSE IF calculateCallDuration(data.callStartTime[1], data.callEndTime,
                                data.callDuration, engine).kind = "throw" THEN None
  ELSE Some([callOffset |-> calculateCallOffset(data.sessionStartTime[1],
                                                data.callStartTime[1], engine).v,
             callDuration |-> calculateCallDuration(data.callStartTime[1], data.callEndTime,
                                                    data.callDuration, engine).v])

\* Every subset of the five fields, with texts that give the call window
\* [300, 1300] ms: session start 20:21:59.700, call start 20:22:00.000, call
\* end 20:22:01.000, duration "1000".
ConfigInputs ==
  {CfgData(url, ss, cs, ce, cd) :
     url \in BOOLEAN,
     ss \in {None, Some(TS(73319700, "none"))},
     cs \in {None, Some(TS(73320000, "Z"))},
     ce \in {None, Some(TS(73321000, "none"))},
     cd \in {None, Some(DurText("", Some(1000), FALSE))}}

\* The client's fetch is answered by the route over the server's fields
\* ("route"), by a server that sends the fields as they are ("direct"), or
\* with an error status ("error").
InitConfig ==
  /\ events = 0
  /\ eventsRef = 0
  /\ loads = << >>
  /\ replayerRef = None
  /\ orphans = {}
  /\ nextId = 1
  /\ isSeekingRef = FALSE
  /\ seekTimers = 0
  /\ seekBaseTimeRef = None
  /\ isPlaying = FALSE
  /\ currentTime = 0
  /\ duration = 0
  /\ playbackSpeed = 1
  /\ callConfig = None
  /\ configDone = FALSE
  /\ firstEventTimestamp = None
  /\ audioEnabled = TRUE
  /\ audio = None
  /\ lastAudioPositionRef = LastInit
  /\ loadsLeft = 1
  /\ seeksLeft = 1
  /\ lastSeek = None
  /\ syncLog = None
  /\ asm = AsmIdle
  /\ lastOp = Op("init")
  /\ \E cfg \in ConfigInputs, via \in {"route", "direct", "error"} :
       call = [fn |-> "loadCallConfig", cfg |-> cfg, via |-> via]

\* loadCallConfig returns; with a configuration the audio element is rendered.
LoadCallConfigReturns ==
  /\ ~configDone
  /\ call.fn = "loadCallConfig"
  /\ configDone' = TRUE
  /\ LET data == IF call.via = "route" THEN CallConfigRoute(call.cfg)
                 ELSE IF call.via = "direct" THEN call.cfg
                 ELSE [call.cfg EXCEPT !.ok = FALSE]
         cc == loadCallConfig(data, {})
     IN Render([Op("callConfig") EXCEPT !.outcome = IF cc # None THEN "done" ELSE "none"],
               currentTime, cc, playbackSpeed, isPlaying, audioEnabled,
               IF cc # None THEN Some(NewAudio(AudioDurationUs)) ELSE None,
               lastAudioPositionRef)
  /\ UNCHANGED << events, eventsRef, loads, replayerRef, orphans, nextId, isSeekingRef,
                  seekTimers, seekBaseTimeRef, duration, firstEventTimestamp, loadsLeft,
                  seeksLeft, lastSeek, syncLog, asm, call >>

NextConfig ==
  \/ LoadCallConfigReturns
  \/ LoadStart(1)
  \/ \E g \in 1..Len(loads) : InitTimeoutFire(g)
  \/ \E g \in 1..Len(loads) : ConstructFire(g)
  \/ \E g \in 1..Len(loads) : SetupFire(g)
  \/ \E g \in 1..Len(loads), valid \in BOOLEAN : Tick(g, valid)
  \/ \E t \in SeekTargets : HandleSeek(t, FALSE)
  \/ SeekTimerFire
  \/ HandlePlayPause
  \/ \E sp \in Speeds : HandleSpeedChange(sp)
  \/ HandleAudioToggle
  \/ PrimAdvance
  \/ OrphanFinish
  \/ AudioLoad
  \/ AudioAdvance

SpecConfig == InitConfig /\ [][NextConfig]_vars

\* ------------------------------------------- the event list of a seek
\* handleSeek's filter and re-ordering and the extension step of
\* recreateReplayerAtPosition, over every event list of up to MaxSeekListLen
\* events of the four types with timestamps 0, 1000 and 1500.  The list has a
\* FullSnapshot and its first and last event carry a timestamp: only then is
\* there a primitive and a firstEventTimestamp, without which handleSeek returns.
MaxSeekListLen == 3
SeekListEvents == {Ev(ty, ts) : ty \in {"n2", "s2", "n3", "n4"}, ts \in {0, 1000, 1500}}
SeekLists ==
  {l \in SeqsUpTo(SeekListEvents, MaxSeekListLen) :
     Len(l) > 0 /\ l[1].timestamp # 0 /\ l[Len(l)].timestamp # 0 /\ HasFullSnapshot(l)}
SeekListTargets == {0, 500}

InitSeekList ==
  /\ AtRest
  /\ \E l \in SeekLists, t \in SeekListTargets :
       call = [fn |-> "seekList", evs |-> l, first |-> l[1].timestamp, timeInMs |-> t,
               sorted |-> None, applied |-> None]

\* handleSeek: eventsUpToTarget, then sortedEvents.
HandleSeekSorts ==
  /\ call.fn = "seekList"
  /\ call.sorted = None
  /\ call' = [call EXCEPT
               !.sorted = Some(SortedEvents(EventsUpTo(call.evs, call.first + call.timeInMs)))]
  /\ UNCHANGED restVars

\* recreateReplayerAtPosition(sortedEvents, ...): the list it goes on with.
RecreateExtends ==
  /\ call.fn = "seekList"
  /\ call.sorted # None
  /\ call.applied = None
  /\ call' = [call EXCEPT !.applied = Some(ExtendEvents(call.sorted[1], call.evs))]
  /\ UNCHANGED restVars

NextSeekList == HandleSeekSorts \/ RecreateExtends

SpecSeekList == InitSeekList /\ [][NextSeekList]_vars

\* ------------------------------------ one FullSnapshot through the loop
\* The processing loop of fetchSessionData on one extracted FullSnapshot
\* event: its type the number 2 or the string '2', with or without cv and
\* delay, its data missing, an object, or a string that is compressed or not,
\* inflates or not, and holds a JSON object, array, number, null or no JSON.
SnapshotInputs ==
  {MkEv(TRUE, ty, 1000, cv, delay, data) :
     ty \in {"n2", "s2"}, cv \in {Num, Missing}, delay \in {Num, Missing},
     data \in {NoData, RefData(5)} \cup
              {StrData(Str(gz, ok, json, << 9 >>)) :
                 gz \in BOOLEAN, ok \in BOOLEAN,
                 json \in {"obj", "arr", "num", "null", "bad"}}}

InitSnapshotData ==
  /\ AtRest
  /\ \E ev \in SnapshotInputs :
       call = [fn |-> "processEvent", arg |-> ev, result |-> None]

\* One iteration of the loop: the event pushed to processedEvents.
ProcessEventReturns ==
  /\ call.fn = "processEvent"
  /\ call.result = None
  /\ LET st == ProcessEvent([eh |-> << call.arg >>, dh |-> DataPool, out |-> << >>], 1)
     IN call' = [call EXCEPT !.result = Some(st.eh[st.out[1]])]
  /\ UNCHANGED restVars

SpecSnapshotData == InitSnapshotData /\ [][ProcessEventReturns]_vars

C2_Rebasing ==
  lastOp.name = "tick" /\ lastOp.outcome = "done" =>
    currentTime = IF seekBaseTimeRef # None
                  THEN seekBaseTimeRef[1] + replayerRef[1].time
                  ELSE replayerRef[1].time

\* C3: Seeking is transient. The flag is cleared later only by the 300 ms timer
\* of recreateReplayerAtPosition, so it is cleared eventually exactly when,
\* whenever it is set, such a timer is pending.
C3_SeekingTransient ==
  isSeekingRef => seekTimers > 0

\* C4 (as stated): isPlaying changes only when a lifecycle notification reached
\* a listener, and no operation writes it directly.
C4_OnlyNotifications_AsStated ==
  [][(isPlaying' # isPlaying => lastOp'.notified # {}) /\ ~lastOp'.direct]_vars

\* C4: isPlaying becomes true only when a start notification reached a
\* listener; it becomes false only when a pause or finish notification reached
\* a listener or in seek, the one operation that writes it directly, and seek
\* writes false.
C4_OnlyNotifications ==
  [][/\ (isPlaying' # isPlaying =>
           IF isPlaying'
           THEN "start" \in lastOp'.notified
           ELSE lastOp'.notified \cap {"pause", "finish"} # {} \/ lastOp'.direct)
     /\ (lastOp'.direct => lastOp'.name = "seek" /\ ~isPlaying')]_vars

\* A seek made while playing has just set isPlaying to false itself.
C4_Witness ==
  /\ lastOp.name = "seek"
  /\ lastOp.direct
  /\ lastSeek # None
  /\ lastSeek[1].wasPlaying
  /\ ~isPlaying

\* C5: at most one primitive instance is live: no instance that was superseded
\* by a seek or a load is still playing.
C5_OneLiveInstance ==
  orphans = {}

\* C6: a seek refused for fewer than 2 events leaves virtual time, the seek
\* base, the live primitive instance and the audio position as they were.
C6_RefusedSeekKeepsState ==
  [][lastOp'.name = "seek" /\ lastOp'.outcome = "refused" =>
       /\ currentTime' = currentTime
       /\ seekBaseTimeRef' = seekBaseTimeRef
       /\ replayerRef'[1].id = replayerRef[1].id
       /\ (audio # None => audio'[1].pos = audio[1].pos)]_vars

\* The audio position a seek to t is to leave behind: the position of t in the
\* call inside the window, the start before it, the end after it.
SeekTargetPosition(t) ==
  LET c == callConfig[1]
  IN IF t < c.callOffset THEN 0
     ELSE IF t <= c.callOffset + c.callDuration
     THEN ((t - c.callOffset) * 1000) \div playbackSpeed
     ELSE IF audio[1].readyState >= 1 THEN audio[1].fileUs ELSE 0

\* C7 (as stated): every seek that is carried out writes the audio position
\* for t itself, and the audio stays paused from the seek until the next play.
C7_SeekAudio_AsStated ==
  /\ (lastSeek # None /\ audio # None => audio[1].paused)
  /\ (lastOp.name = "seek" /\ lastOp.outcome # "ignored" /\ audio # None =>
        lastOp.audioSet = Some(SeekTargetPosition(lastOp.t)))

\* C7: every seek that is carried out leaves the audio paused, and it stays
\* paused until the next play; when the track is enabled the seek itself
\* writes the audio position for t.
C7_SeekAudio ==
  /\ (lastSeek # None /\ audio # None => audio[1].paused)
  /\ (lastOp.name = "seek" /\ lastOp.outcome # "ignored" /\ audio # None /\ audioEnabled =>
        lastOp.audioSet = Some(SeekTargetPosition(lastOp.t)))

\* A seek into the call window made while playing, with the track enabled:
\* it wrote the position of 400 ms in the call (0.1 s).
C7_Witness ==
  /\ lastOp.name = "seek"
  /\ lastOp.outcome = "recreated"
  /\ lastSeek[1].wasPlaying
  /\ audio # None
  /\ audioEnabled
  /\ lastOp.t = 400
  /\ lastOp.audioSet = Some(100000)

\* C8: inside the call window the sync effect writes the audio position iff
\* the target is more than 0.5 s from audio.currentTime, the move is forward
\* or a backward jump of more than 2 s, and the target is more than 0.1 s from
\* the last position set; when it writes, it assigns the target and records
\* it. With last position 10.0 s, target 10.05 s is not written, and target
\* 12.0 s (audio at 10.0 s) is.
C8_ThreePartGuard ==
  syncLog # None /\ syncLog[1].n = 1 /\ syncLog[1].branch = "inside" =>
    LET l == syncLog[1]
        target == ((currentTime - callConfig[1].callOffset) * 1000) \div playbackSpeed
        far == target - l.prePos > 500000 \/ l.prePos - target > 500000
        forward == target > l.prePos
        bigBack == l.prePos - target > 2000000
        distinct == target - l.preLast > 100000 \/ l.preLast - target > 100000
    IN /\ (l.wrote <=> far /\ (forward \/ bigBack) /\ distinct)
       /\ (l.wrote => l.set = Some(target) /\ lastAudioPositionRef = target)
       /\ (~l.wrote => l.set = None /\ lastAudioPositionRef = l.preLast)
       /\ (l.preLast = 10000000 /\ target = 10050000 => ~l.wrote)
       /\ (l.preLast = 10000000 /\ l.prePos = 10000000 /\ target = 12000000 => l.wrote)

\* The example: last position 10.0 s, audio at 10.0 s, target 12.0 s, written.
C8_Witness ==
  /\ syncLog # None
  /\ syncLog[1].n = 1
  /\ syncLog[1].branch = "inside"
  /\ syncLog[1].preLast = 10000000
  /\ syncLog[1].prePos = 10000000
  /\ syncLog[1].wrote
  /\ syncLog[1].set = Some(12000000)
  /\ lastAudioPositionRef = 12000000

\* C9: the sync effect evaluated a second time on unchanged inputs does not
\* write the audio position again, inside the window and outside it.
C9_Idempotent ==
  syncLog # None /\ syncLog[1].n = 2 /\ syncLog[1].firstWrote => ~syncLog[1].wrote

\* A second evaluation inside the window after a first one whose write the
\* element clamped to the end of a shorter file.
C9_Witness ==
  /\ syncLog # None
  /\ syncLog[1].n = 2
  /\ syncLog[1].firstWrote
  /\ syncLog[1].branch = "inside"
  /\ audio[1].pos < syncLog[1].target

\* C10: after the sync effect has run, the audio is playing only if the replay
\* is playing, virtual time is inside the call window and the track is enabled.
C10_Lockstep ==
  lastOp.synced /\ audio # None /\ ~audio[1].paused =>
    isPlaying /\ InCallNow /\ audioEnabled

\* C11: while the track is disabled, the sync effect and the toggle that
\* disables it leave the audio paused and do nothing else: the audio position
\* and the last position set stay as they were and the audio is not playing
\* afterwards, whatever virtual time and play state are.
C11_DisabledOnlyPauses ==
  [][~audioEnabled' /\ lastOp'.name \in {"sync", "audioToggle"} =>
       /\ audio'[1].paused
       /\ audio'[1].pos = audio[1].pos
       /\ lastAudioPositionRef' = lastAudioPositionRef
       /\ (lastOp'.name = "sync" => ~syncLog'[1].wrote /\ ~syncLog'[1].played)]_vars

\* The sync effect has run on a disabled track while the replay was playing
\* inside the call window, after the toggle had paused an audio that was
\* not at its start.
C11_Witness ==
  /\ syncLog # None
  /\ syncLog[1].branch = "disabled"
  /\ lastOp.name = "sync"
  /\ ~audioEnabled
  /\ isPlaying
  /\ InCallNow
  /\ audio[1].paused
  /\ audio[1].pos = 700000

C14_NoSources ==
  asm.sources \in {None, Some(<< >>)} /\ asm.pc # "start"
    => asm.pc = "failed" /\ asm.error = "NoSources" /\ asm.fetched = 0
       /\ asm.snapshotData = << >> /\ asm.out = << >>

\* The sources list was empty and the assemble has failed.
C14_Witness ==
  asm.pc = "failed" /\ asm.sources = Some(<< >>) /\ asm.error = "NoSources"

\* C13: assemble fails with NoFullStateError when the extracted events hold no
\* FullState (kind 2) event, so a sequence that is returned always has one.
C13_NoFullStateFails ==
  asm.pc = "done" => \E i \in 1..Len(asm.out) : asm.evHeap[asm.out[i]].type \in {"n2", "s2"}

\* C15: a chunk whose non-empty payload has no parseable record does not abort
\* the assemble: the assemble never fails on the decoding of a chunk that
\* holds a line.
C15_DecodeErrorSkipsChunk ==
  ~(/\ asm.pc = "failed"
    /\ asm.error = "Decode"
    /\ Len(asm.sources[1][asm.fetched].recs) > 0)

\* C16: in the assembled sequence every Incremental event (kind 3 or "3") has
\* a payload whose removes, adds, texts and attributes are arrays, whatever
\* the input held.
C16_SubListsAreArrays ==
  asm.pc = "done" =>
    \A i \in 1..Len(asm.out) :
      asm.evHeap[asm.out[i]].type \in {"n3", "s3"} =>
        /\ asm.evHeap[asm.out[i]].data.tag = "ref"
        /\ \A f \in MutationFields :
             asm.dataHeap[asm.evHeap[asm.out[i]].data.ref][f].tag = "arr"

\* A string that cannot be inflated or parsed.
C17_Fails(s) == IF isCompressed(s) THEN ~s.ok \/ s.json = "bad" ELSE s.json = "bad"

\* C17: a failure to inflate or parse is local to its field: the output has as
\* many events as were extracted, a sub-list of an Incremental event (kind 3
\* or "3") that fails is an empty array in the output, and a FullState payload
\* that fails is the raw string.
C17_FailureLocal ==
  asm.pc = "done" =>
    /\ Len(asm.out) = Len(asm.extracted)
    /\ \A i \in 1..Len(asm.out) :
         LET src == EventPool[asm.extracted[i]]
             o == asm.evHeap[asm.out[i]]
         IN /\ src.type \in {"n3", "s3"} /\ src.data.tag = "ref" =>
                 \A f \in MutationFields :
                   DataPool[src.data.ref][f].tag = "str" /\ C17_Fails(DataPool[src.data.ref][f].s)
                     => asm.dataHeap[o.data.ref][f] = Arr(<< >>)
            /\ src.type \in {"n2", "s2"} /\ src.data.tag = "str" /\ C17_Fails(src.data.s)
                 => o.data = src.data

\* The parsed records of all chunks, chunk by chunk in locator order.
RECURSIVE C18_Raw(_, _)
C18_Raw(srcs, k) ==
  IF k > Len(srcs) THEN << >>
  ELSE SelectSeq(srcs[k].recs, LAMBDA r : r.wrap \notin {"bad", "blank"})
         \o C18_Raw(srcs, k + 1)

\* C18: the assembled sequence is the order-preserving subsequence of the raw
\* records, chunk by chunk in locator order, whose resolved object (element
\* [1] of a tuple, or the bare object) has a type field: same length, and the
\* i-th output is the i-th such record's event (same timestamp and kind).
C18_OrderPreservingSubsequence ==
  asm.pc = "done" =>
    LET kept == SelectSeq(C18_Raw(asm.sources[1], 1),
                          LAMBDA r : r.wrap \in {"bare", "tuple"} /\ EventPool[r.ev].hasType)
    IN /\ Len(asm.out) = Len(kept)
       /\ \A i \in 1..Len(kept) :
            /\ asm.evHeap[asm.out[i]].timestamp = EventPool[kept[i].ev].timestamp
            /\ asm.evHeap[asm.out[i]].type = EventPool[kept[i].ev].type

\* Two chunks were assembled, an object without kind was dropped without an
\* error, and the output keeps the later timestamp of the first chunk before
\* the earlier one of the second.
C18_Witness ==
  /\ asm.pc = "done"
  /\ Len(asm.sources[1]) = 2
  /\ asm.sources[1][2] = Payload("array", << Item("tuple", "a", 1) >>)
  /\ asm.snapshotData[1] = Item("bare", "", 12)
  /\ Len(asm.snapshotData) = 3
  /\ Len(asm.out) = 2
  /\ asm.evHeap[asm.out[1]].timestamp > asm.evHeap[asm.out[2]].timestamp

\* The events of an output with their payload objects.
C19_Deref(a) ==
  [i \in 1..Len(a.out) |->
     [ev |-> a.evHeap[a.out[i]],
      data |-> IF a.evHeap[a.out[i]].data.tag = "ref"
               THEN Some(a.dataHeap[a.evHeap[a.out[i]].data.ref]) ELSE None]]

\* C19: normalizing the tuple (sessionId, eventObject) yields the same event
\* as normalizing the bare eventObject: the output equals the output for the
\* same records with every tuple replaced by its event object.
C19_TupleSameAsBare ==
  asm.pc = "done" =>
    C19_Deref(asm) =
      C19_Deref(Finished([asm EXCEPT
        !.evHeap = EventPool, !.dataHeap = DataPool, !.out = << >>,
        !.snapshotData = [i \in 1..Len(asm.snapshotData) |->
                            IF asm.snapshotData[i].wrap = "tuple"
                            THEN Item("bare", "", asm.snapshotData[i].ev)
                            ELSE asm.snapshotData[i]]]))

\* Tuples of both session ids around an Incremental and a FullState event were
\* normalized.
C19_Witness ==
  /\ asm.pc = "done"
  /\ Len(asm.out) = 2
  /\ asm.snapshotData[1] = Item("tuple", "a", 7)
  /\ asm.snapshotData[2] = Item("tuple", "b", 3)

\* C20: every assembled event lacks cv and delay and otherwise has the fields
\* of its input, and the input event objects and payload objects are never
\* mutated: the output objects are new ones.
C20_CopiesOnly ==
  asm.pc = "done" =>
    /\ SubSeq(asm.evHeap, 1, Len(EventPool)) = EventPool
    /\ SubSeq(asm.dataHeap, 1, Len(DataPool)) = DataPool
    /\ \A i \in 1..Len(asm.out) :
         LET src == EventPool[asm.extracted[i]]
             o == asm.evHeap[asm.out[i]]
         IN /\ asm.out[i] > Len(EventPool)
            /\ o.cv = Missing
            /\ o.delay = Missing
            /\ o.hasType /\ o.type = src.type
            /\ o.timestamp = src.timestamp
            /\ (o.data.tag = "missing") = (src.data.tag = "missing")

\* An Incremental event that had cv, delay and compressed sub-lists was
\* assembled: its output has a payload object of its own.
C20_Witness ==
  /\ asm.pc = "done"
  /\ Len(asm.out) > 0
  /\ asm.extracted[1] = 7
  /\ asm.evHeap[asm.out[1]].data.ref > Len(DataPool)
  /\ asm.dataHeap[asm.evHeap[asm.out[1]].data.ref].adds = Arr(<< 2, 3 >>)

\* C21: decode(raw) returns the whole-payload JSON parse when that succeeds,
\* otherwise the parses of the non-blank lines that parse, in line order, and
\* it fails only if the payload is non-empty and none of its lines parses:
\* stated on the runs over a single chunk, where the records pushed are the
\* decoder's result.
C21_DecodeContract ==
  asm.pc \in {"done", "failed"} /\ asm.sources # None /\ Len(asm.sources[1]) = 1 =>
    LET p == asm.sources[1][1]
        lines == SelectSeq(p.recs, LAMBDA r : r.wrap # "blank")
        good == SelectSeq(lines, LAMBDA r : r.wrap # "bad")
    IN /\ asm.pc = "failed" => Len(p.recs) > 0 /\ Len(good) = 0
       /\ p.fmt # "lines" => asm.pc = "done" /\ asm.snapshotData = p.recs
       /\ p.fmt = "lines" /\ Len(lines) # 1 /\ asm.pc = "done" => asm.snapshotData = good

\* C22: isCompressed(s) is true exactly when s has at least two characters
\* and its first two character codes are 0x1F and 0x8B; it is false for the
\* empty string, every one-character string and a string that begins with
\* 0x8B, 0x1F.
C22_MagicExactly ==
  call.result # None =>
    /\ call.result[1] = (Len(call.arg) >= 2 /\ SubSeq(call.arg, 1, 2) = << 31, 139 >>)
    /\ Len(call.arg) <= 1 => ~call.result[1]
    /\ Len(call.arg) >= 2 /\ SubSeq(call.arg, 1, 2) = << 139, 31 >> => ~call.result[1]

\* isCompressed answered true for the string 0x1F 0x8B 'A'.
C22_Witness ==
  call.result = Some(TRUE) /\ call.arg = << 31, 139, 65 >>

\* C23: isWithinCall(t, offset, duration) is true exactly when
\* offset <= t <= offset + duration; t = offset and t = offset + duration
\* give true, t = offset - 1 and t = offset + duration + 1 give false.
C23_InclusiveWindow ==
  call.fn = "isWithinCallPeriod" /\ call.result # None =>
    /\ call.result[1] = (call.offset <= call.t /\ call.t <= call.offset + call.duration)
    /\ call.t = call.offset => call.result[1]
    /\ call.t = call.offset + call.duration => call.result[1]
    /\ call.t = call.offset - 1 => ~call.result[1]
    /\ call.t = call.offset + call.duration + 1 => ~call.result[1]

\* isWithinCall answered true at the upper boundary of a window of 4 ms.
C23_Witness ==
  /\ call.fn = "isWithinCallPeriod"
  /\ call.result = Some(TRUE)
  /\ call.duration = 4
  /\ call.t = call.offset + call.duration

\* C24: audioPositionSeconds(t, offset, rate) = max(0, t - offset) / rate /
\* 1000 for the rates 1 and 2 (in microseconds: max(0, t - offset) * 1000 /
\* rate, exactly): 0 for every t before the call start and never negative.
C24_AudioPosition ==
  call.fn = "calculateAudioPosition" /\ call.result # None =>
    /\ call.result[1] * call.speed
         = (IF call.t - call.offset > 0 THEN call.t - call.offset ELSE 0) * 1000
    /\ call.t < call.offset => call.result[1] = 0
    /\ call.result[1] >= 0

\* The position 3 ms before the call start, at rate 2, was computed.
C24_Witness ==
  /\ call.fn = "calculateAudioPosition"
  /\ call.result = Some(0)
  /\ call.t = 2
  /\ call.offset = 5
  /\ call.speed = 2

\* The instant a timestamp text denotes, in ms since 2025-09-02 00:00 UTC.
C25_Instant(ts) == ts.wall - (IF ts.zone = "+02:00" THEN 2 * 3600000 ELSE 0)

C27_CallOffset ==
  call.fn = "calculateCallOffset" /\ call.result # None
    /\ call.session.zone \in {"+00", "none"} /\ call.start.zone \in {"+00", "none"} =>
    /\ call.result[1] = NumResult(call.start.wall - call.session.wall)
    /\ call.session = TS(73311526, "+00") /\ call.start = TS(73320227, "none")
         => call.result[1] = NumResult(8701)

C28_Unplayable ==
  /\ [](/\ replayerRef = None
        /\ nextId = 1
        /\ orphans = {}
        /\ \A g \in 1..Len(loads) : loads[g].stage \in {"timeout", "dead"}
        /\ firstEventTimestamp = None
        /\ duration = 0
        /\ ~isPlaying
        /\ currentTime = 0
        /\ playbackSpeed = 1
        /\ ~isSeekingRef
        /\ seekTimers = 0
        /\ seekBaseTimeRef = None
        /\ lastSeek = None)
  /\ [][lastOp'.name \in {"playPause", "play", "pause", "setRate", "seek"}
          => UNCHANGED << events, eventsRef, loads, callConfig, configDone, audioEnabled,
                          audio, lastAudioPositionRef, syncLog >>]_vars

\* The timer of a load found no FullSnapshot, the audio element is there, and
\* a seek was ignored.
C28_Witness ==
  /\ Len(loads) > 0
  /\ events \in UnplayableIds
  /\ loads[Len(loads)].stage = "dead"
  /\ audio # None
  /\ lastOp.name = "seek"
  /\ lastOp.outcome = "ignored"

\* C29: the list handleSeek passes on is a re-ordering of exactly the events
\* with timestamp <= firstEventTimestamp + timeInMs: when the prefix has a
\* FullSnapshot, one of them is first and the rest of the prefix follows in
\* its original order; otherwise it is the prefix itself.  No event is lost,
\* also with two FullSnapshots or an event of timestamp 0 in the prefix.
C29_Prefix == SelectSeq(call.evs, LAMBDA e : e.timestamp <= call.first + call.timeInMs)

C30_ExtendedToTwo ==
  /\ call.fn = "seekList"
  /\ call.applied # None
  /\ Len(call.sorted[1]) < 2
  /\ \E i \in 1..Len(call.evs) : call.evs[i].timestamp > call.first + call.timeInMs
  => Len(call.applied[1]) >= 2

\* C31: while the Seeking flag is set, no polling tick changes virtual time:
\* a tick between the start of a seek and the clearing of the flag leaves
\* currentTime as the seek set it.
C31_NoTickWhileSeeking ==
  [][isSeekingRef /\ lastOp'.name = "tick" => currentTime' = currentTime]_vars

\* A tick was suppressed under the flag after a seek, with the new primitive
\* already playing at a time that the tick would otherwise have reported.
C31_Witness ==
  /\ lastOp.name = "tick"
  /\ lastOp.outcome = "suppressed"
  /\ isSeekingRef
  /\ seekBaseTimeRef # None
  /\ replayerRef # None
  /\ replayerRef[1].time > 0
  /\ currentTime = seekBaseTimeRef[1]

\* C32: a polling tick whose read of the primitive's time is invalid
\* (undefined, NaN or negative) leaves currentTime at the last known value,
\* with and without a seek base.
C32_InvalidReadHolds ==
  [][lastOp'.name = "tick" /\ lastOp'.outcome = "invalid" => currentTime' = currentTime]_vars

C34_MonotonicWhilePlaying ==
  /\ lastOp.name = "tick"
  /\ lastOp.outcome = "done"
  /\ replayerRef # None
  /\ replayerRef[1].playing
  => \A k \in 0..(PrimTotal(replayerRef[1].evs) \div ResumeStepMs) :
       replayerRef[1].time + k * ResumeStepMs <= PrimTotal(replayerRef[1].evs)
       => PolledTime(Some(replayerRef[1].time + k * ResumeStepMs),
                     loads[lastOp.t].closDuration) >= currentTime

\* C35: rate lockstep.  In every state with a live primitive, the primitive's
\* speed equals playbackSpeed and, when the audio element exists, so does its
\* playbackRate, after any interleaving of setRate, seek, load and the arrival
\* of the call configuration.
C35_RateLockstep ==
  replayerRef # None
  => /\ replayerRef[1].speed = playbackSpeed
     /\ audio # None => audio[1].rate = playbackSpeed

\* C36: whenever the sync effect has run with the track configured and
\* enabled and the virtual time more than the guard margin before the call
\* window, the audio is paused and its position is at the start (at most
\* 0.1 s), whatever lastAudioPositionRef held.
C36_BeforeWindowAtStart ==
  /\ lastOp.synced
  /\ callConfig # None
  /\ audio # None
  /\ audioEnabled
  /\ currentTime < callConfig[1].callOffset - GuardMarginMs
  => /\ audio[1].paused
     /\ audio[1].pos <= AtEdgeUs

\* C37: a load supersedes an earlier load at any stage of its deferred
\* initialisation: once a later load was called, no primitive is constructed
\* and no set-up (listeners, polling timer) is run for the earlier one.
C37_LoadSupersedes ==
  [][lastOp'.name \in {"construct", "setupReplayer"} => lastOp'.t = Len(loads)]_vars

\* C38: once a seek or a load has replaced the primitive, a notification
\* (start, pause, finish) delivered by the superseded instance never changes
\* isPlaying.
C38_SupersededIsSilent ==
  [][lastOp'.name = "orphanFinish" => isPlaying' = isPlaying]_vars

\* C39: seeking is history-independent.  After a seek to t (its constructor
\* not throwing) the primitive's input, the virtual time and the seek base are
\* those that seek(t) alone gives on the loaded recording, whatever seeks came
\* before: the prefix of the full sequence, t and t when the seek recreates
\* the primitive, and the full sequence with no seek base when it is refused.
C39_HistoryIndependent ==
  /\ lastOp.name = "seek"
  /\ lastOp.outcome \in {"recreated", "refused"}
  => IF Len(SeekEvents(lastOp.t)) >= 2
     THEN /\ replayerRef[1].evs = SeekEvents(lastOp.t)
          /\ currentTime = lastOp.t
          /\ seekBaseTimeRef = Some(lastOp.t)
     ELSE /\ replayerRef[1].evs = CurrentEvents
          /\ seekBaseTimeRef = None

\* C40: a FullSnapshot's data is never an array after processing: a
\* compressed string that inflates to a JSON object is replaced by the object,
\* one that inflates to a JSON array or to another non-object is left as the
\* string.
C40_ObjectOnly ==
  call.fn = "processEvent" /\ call.result # None
  => LET before == call.arg.data
         after == call.result[1].data
         accepted == /\ before.tag = "str"
                     /\ isCompressed(before.s)
                     /\ before.s.ok
                     /\ before.s.json = "obj"
     IN IF accepted
        THEN after.tag = "parsed" /\ after.s.json = "obj" /\ after.s.v = before.s.v
        ELSE after = before

====
